---- MODULE Spec2Model ----
(***************************************************************************)
(* Capturecard_Viewer: the audio passthrough engine (src/src/audio.rs) and *)
(* the video frame pipeline (src/src/video.rs) as state machines.          *)
(*                                                                         *)
(* Numbers.  An f32 amplitude x is represented by the integer x * F32Unit  *)
(* (F32Unit = i16::MAX, so that the i16 -> f32 conversion s / i16::MAX is  *)
(* exact); a volume multiplier v by the integer v * VolUnit; the product   *)
(* sample * volume written to an f32 output slot by the integer            *)
(* x * v * F32Unit * VolUnit.  Option<T> is a sequence of length <= 1.     *)
(***************************************************************************)
EXTENDS Integers, Sequences, FiniteSets, TLC

VARIABLES
    \* AudioCapture (audio.rs:9-25)
    input_stream, output_stream, is_active, volume, buffer_capacity,
    audio_passthrough_enabled, raw_audio_consumer, processed_audio_consumer,
    \* the session built by start_passthrough_with_settings (audio.rs:110-118)
    ring, inFormat, outFormat, producerLock, consumerLock,
    \* the input callback (audio.rs:127-133 / 142-149)
    inPc, inData,
    \* the output callback (audio.rs:161-174 / 183-196)
    outPc, outVol, outLeft, outBuf,
    \* what the last start_passthrough_with_settings returned, and whether it
    \* named a device the host does not enumerate
    audioResult, audioNamedAbsent,
    \* history of the session: samples delivered by the input device, samples
    \* accepted by push, samples popped, pushes refused, and, for the running
    \* output callback, what each slot popped, the ring at its start and whether
    \* a push happened while it ran
    delivered, accepted, popped, overruns, outTaken, outRing0, outPushed,
    \* VideoCapture (video.rs:103-107); frames is the FrameBuffer (video.rs:53-62)
    camera, video_is_active, frames,
    \* the mutex around frames: "free" or the thread that holds it
    fbLock,
    \* the frame callback of the running camera ("cb") and one still in flight
    \* from a camera that has been stopped ("stale"): where it is and the
    \* VideoFrame it decoded
    cbPc, cbFrame,
    \* the UI thread inside get_latest_frame, and what the call returned last
    uiPc, returned,
    \* what the last start_capture returned, and whether it named a device the
    \* query does not list
    videoResult, videoNamedAbsent,
    \* history of the video session: the frames passed to push_back, the last
    \* of them, the push_backs since the last poll (up to 2), and how many the
    \* last poll found (-1: no poll yet)
    pushed, lastPushed, pushesSincePoll, polledOver,
    \* which of "front", "back" and "returned" hold a frame stored by a callback
    \* of a camera that had been stopped
    fromStale,
    \* a ring exercised on its own: the capacity, the samples to push, how many
    \* pushes are planned, the ring, the result of each push, the samples popped
    ringTest,
    \* set_volume exercised on its own: the percentage and whether it was applied
    volumeTest,
    \* a start exercised on its own: the configuration of the input device and
    \* whether the start was made
    capacityTest,
    \* a FrameBuffer exercised on its own: the buffer, the push_back calls made
    \* and the interval the clock gave to each of them
    pushTest,
    \* the pixel converter exercised on its own: width, height, source bytes
    \* and the bytes returned
    yuyTest,
    \* the last step of the frame callback returned without a frame to store
    cbDropped,
    \* TEST_SOUND_FLAG (ui.rs:7), and its history: the requests stored, the
    \* polls made, the polls answered true, the requests stored since the last
    \* poll answered true, and the answer of the last poll
    test_sound_flag, soundHistory,
    \* CaptureCardViewer's record of the devices last connected (main.rs:43-52)
    viewer,
    \* one run of apply_settings (main.rs:723-870): where it is, its arguments
    \* and the starts it has made
    applyRun,
    \* the host: the configured capture devices are plugged in and can be opened
    available,
    \* update's clock and delayed connection (main.rs:36, 55-56, 145-191): the
    \* milliseconds since construction, delayed_connection_triggered,
    \* last_settings_applied, the part of update that is running, and the times
    \* of the first update made two seconds after startup or later and of the
    \* calls of apply_settings(true)
    startup,
    \* ScreenshotManager's hotkey flag (screenshot.rs:11-13, 94-126, 229-259):
    \* the clock in half milliseconds, is_hotkey_pressed, last_trigger_time,
    \* the press events the listener has seen, and the calls of
    \* is_hotkey_pressed made: when, what flag was found, what was answered
    \* and how many press events had been seen
    hotkey,
    \* the settings dialog (ui.rs:13, 21-127; main.rs:211-215, 618):
    \* show_settings, the shared settings, TEMP_SETTINGS, the settings as they
    \* were when the dialog was last opened, the last thing the user did and
    \* what show_settings_dialog returned for it
    dialog,
    \* the mutexes of the application: the thread that holds each, and what
    \* each thread has left to do of the function it is running, as the lock,
    \* try_lock, unlock and join operations of that function in their order
    locks

avars == << input_stream, output_stream, is_active, volume, buffer_capacity,
            audio_passthrough_enabled, raw_audio_consumer, processed_audio_consumer,
            ring, inFormat, outFormat, producerLock, consumerLock,
            inPc, inData, outPc, outVol, outLeft, outBuf, audioResult,
            audioNamedAbsent,
            delivered, accepted, popped, overruns, outTaken, outRing0, outPushed >>

vvars == << camera, video_is_active, frames, fbLock, cbPc, cbFrame, uiPc, returned,
            videoResult, videoNamedAbsent, pushed, lastPushed, pushesSincePoll,
            polledOver, fromStale, cbDropped >>

\* the operations exercised on their own
tvars == << ringTest, volumeTest, capacityTest, pushTest, yuyTest >>

\* the application around the two controllers
uvars == << test_sound_flag, soundHistory, viewer, applyRun >>

\* the host around the application: whether the configured capture device is
\* plugged in
wvars == << available, startup, hotkey, dialog, locks >>

vars == << avars, vvars, tvars, uvars, wvars >>

----------------------------------------------------------------------------
(* Bounds of the model *)

\* the last millisecond on update's clock
MaxClock == 5000

\* press events seen by the hotkey listener, calls of is_hotkey_pressed
MaxPresses == 3
MaxHotkeyCalls == 4

\* samples the input device delivers in one session
MaxDelivered == 3
\* length of one hardware input buffer
MaxInBuf == 2
\* slots of one hardware output buffer
MaxOutBuf == 2
\* frames a camera delivers in one session
MaxFrames == 3
\* capacity of a ring exercised on its own
MaxRingCap == 3
\* largest percentage, and minus the smallest, passed to set_volume on its own
MaxPercent == 300
\* largest sample rate and channel count of a device started on its own
MaxSampleRate == 48000
MaxChannels == 2
\* push_back calls made on a FrameBuffer exercised on its own
MaxPushes == 123
\* test sound requests and polls of the flag
MaxRequests == 4
MaxPolls == 4
\* largest width and height of an image converted on its own
MaxYuyWidth == 4
MaxYuyHeight == 2

(* Program constants *)

I16Max == 32767
I16Min == -32768
LatencyMs == 50
VolUnit == 100
IntervalHistoryLen == 120
U8Max == 255
StartupDelayMs == 2000
ApplyPeriodMs == 2000
DebounceMs == 200

F32Unit == I16Max

None == << >>
Some(x) == << x >>

Min(a, b) == IF a < b THEN a ELSE b
Max(a, b) == IF a > b THEN a ELSE b

\* Rust's `as` from float to integer truncates toward zero
TruncDiv(a, b) == IF a >= 0 THEN a \div b ELSE -((-a) \div b)

RECURSIVE IsSubseq(_, _)
IsSubseq(s, t) ==
    IF s = << >> THEN TRUE
    ELSE IF t = << >> THEN FALSE
    ELSE IF Head(s) = Head(t) THEN IsSubseq(Tail(s), Tail(t))
    ELSE IsSubseq(s, Tail(t))

----------------------------------------------------------------------------
(* The environment: devices and what they deliver *)

\* Names a caller may ask for, and the devices the host enumerates
DeviceNames == {"A", "B"}
InputDevices == {"A"}
OutputDevices == {"A"}
SampleFormats == {"F32", "I16"}

\* Device configurations <<sample_rate, channels>>, scaled down so that the ring
\* holds a few samples
DeviceConfigs == { <<20, 1>>, <<20, 2>> }

\* The k-th sample a device delivers in a session.  The samples are pairwise
\* distinct, so that a reordered, repeated or invented sample shows, and start
\* with the extremes of the format: i16::MIN, i16::MAX, ... for an i16 device,
\* -1.0, 1.0, ... (times F32Unit) for an f32 device
HwSample(fmt, k) ==
    IF fmt = "I16"
    THEN IF k % 2 = 1 THEN I16Min + (k - 1) ELSE I16Max - (k - 2)
    ELSE IF k % 2 = 1 THEN -F32Unit + (k - 1) ELSE F32Unit - (k - 2)

\* The hardware buffer of n samples that follows `sofar` delivered samples
HwBuffer(fmt, sofar, n) == [ i \in 1..n |-> HwSample(fmt, sofar + i) ]

VolumePercents == { -50, 100, 300 }

AudioFaults == { "enumerate", "no_default_in", "no_default_out",
                 "in_config", "out_config", "build_in", "build_out",
                 "play_in", "play_out" }

\* What the host answers during one start: the step that fails, if any, and the
\* default configurations of the two devices
AudioEnvs ==
    { [ fault |-> f, cfg |-> << 20, 1 >>, inFmt |-> "F32", outFmt |-> "F32" ] :
        f \in AudioFaults }
    \cup
    { [ fault |-> "none", cfg |-> c, inFmt |-> i, outFmt |-> o ] :
        c \in DeviceConfigs, i \in SampleFormats, o \in SampleFormats }

OptionNames == { None } \cup { Some(d) : d \in DeviceNames }

----------------------------------------------------------------------------
(* The ring buffer (ringbuf::HeapRb split into Producer / Consumer) *)

\* a capacity doubled before the division
RingCapacity_DoubleFirst(sample_rate, channels) ==
    (sample_rate * channels * LatencyMs * 2) \div 1000

RingCapacity(sample_rate, channels) ==
    LET buffer_size == (sample_rate * channels * LatencyMs) \div 1000
    IN  buffer_size * 2

RingNew(capacity) == [ cap |-> capacity, buf |-> << >> ]

\* a push that overwrites the oldest sample of a full ring
RingPush_Overwrite(rb, sample) ==
    IF Len(rb.buf) < rb.cap
    THEN [ rb |-> [rb EXCEPT !.buf = Append(@, sample)], ok |-> TRUE ]
    ELSE [ rb |-> [rb EXCEPT !.buf = Append(Tail(@), sample)], ok |-> TRUE ]

RingPush(rb, sample) ==
    IF Len(rb.buf) < rb.cap
    THEN [ rb |-> [rb EXCEPT !.buf = Append(@, sample)], ok |-> TRUE ]
    ELSE [ rb |-> rb, ok |-> FALSE ]

\* a pop that takes the newest sample
RingPop_Newest(rb) ==
    IF rb.buf # << >>
    THEN [ rb |-> [rb EXCEPT !.buf = SubSeq(@, 1, Len(@) - 1)],
           val |-> Some(rb.buf[Len(rb.buf)]) ]
    ELSE [ rb |-> rb, val |-> None ]

RingPop(rb) ==
    IF rb.buf # << >>
    THEN [ rb |-> [rb EXCEPT !.buf = Tail(@)], val |-> Some(Head(rb.buf)) ]
    ELSE [ rb |-> rb, val |-> None ]

----------------------------------------------------------------------------
(* Sample conversion *)

\* input callback: f32 samples are pushed as they are, i16 samples as
\* sample as f32 / i16::MAX as f32
InputConvert(fmt, sample) ==
    IF fmt = "F32" THEN sample ELSE (sample * F32Unit) \div I16Max

\* f32 to i16 with `as`: truncation and saturation
SaturateI16(x) == Max(I16Min, Min(I16Max, x))

\* output callback: audio_sample * volume for an f32 device,
\* (audio_sample * volume * i16::MAX as f32) as i16 for an i16 device; with
\* F32Unit = i16::MAX the real product x * v * i16::MAX is
\* audio_sample * vol / VolUnit
OutputConvert(fmt, audio_sample, vol) ==
    IF fmt = "F32" THEN audio_sample * vol
    ELSE SaturateI16(TruncDiv(audio_sample * vol, VolUnit))

Silence == 0

\* a slot written without the volume
SlotValue_NoVolume(fmt, val, vol) ==
    IF val # None THEN OutputConvert(fmt, val[1], VolUnit) ELSE Silence

\* what the output callback writes to one slot for the result of pop
SlotValue(fmt, val, vol) ==
    IF val # None THEN OutputConvert(fmt, val[1], vol) ELSE Silence

\* a volume that is not clamped
VolumeOf_NoClamp(volume_percent) == (volume_percent * VolUnit) \div 100

VolumeOf(volume_percent) ==
    Max(0 * VolUnit, Min(2 * VolUnit, (volume_percent * VolUnit) \div 100))

----------------------------------------------------------------------------
(* AudioCapture *)

InitAudio ==
    /\ input_stream = FALSE
    /\ output_stream = FALSE
    /\ is_active = FALSE
    /\ volume = VolUnit
    /\ buffer_capacity = 0
    /\ audio_passthrough_enabled = TRUE
    /\ raw_audio_consumer = FALSE
    /\ processed_audio_consumer = FALSE
    /\ ring = RingNew(0)
    /\ inFormat = "F32"
    /\ outFormat = "F32"
    /\ producerLock = "free"
    /\ consumerLock = "free"
    /\ inPc = "idle"
    /\ inData = << >>
    /\ outPc = "idle"
    /\ outVol = VolUnit
    /\ outLeft = 0
    /\ outBuf = << >>
    /\ audioResult = "none"
    /\ audioNamedAbsent = FALSE
    /\ delivered = << >>
    /\ accepted = << >>
    /\ popped = << >>
    /\ overruns = 0
    /\ outTaken = << >>
    /\ outRing0 = << >>
    /\ outPushed = FALSE

\* a start that opens the default device when the named one is absent
AudioStartOutcome_FallbackToDefault(inName, outName, fault) ==
    IF inName # None /\ fault = "enumerate" THEN "enumerate devices"
    ELSE IF (inName = None \/ inName[1] \notin InputDevices) /\ fault = "no_default_in"
         THEN "No default input device"
    ELSE IF (outName = None \/ outName[1] \notin OutputDevices) /\ fault = "no_default_out"
         THEN "No default output device"
    ELSE IF fault = "in_config" THEN "Failed to get input config"
    ELSE IF fault = "out_config" THEN "Failed to get output config"
    ELSE IF fault = "build_in" THEN "Failed to build input stream"
    ELSE IF fault = "build_out" THEN "Failed to build output stream"
    ELSE IF fault = "play_in" THEN "Failed to start input stream"
    ELSE IF fault = "play_out" THEN "Failed to start output stream"
    ELSE "ok"

\* Which step of start_passthrough_with_settings fails, if any
AudioStartOutcome(inName, outName, fault) ==
    IF inName # None /\ fault = "enumerate" THEN "enumerate devices"
    ELSE IF inName # None /\ inName[1] \notin InputDevices THEN "input device not found"
    ELSE IF inName = None /\ fault = "no_default_in" THEN "No default input device"
    ELSE IF outName # None /\ outName[1] \notin OutputDevices THEN "output device not found"
    ELSE IF outName = None /\ fault = "no_default_out" THEN "No default output device"
    ELSE IF fault = "in_config" THEN "Failed to get input config"
    ELSE IF fault = "out_config" THEN "Failed to get output config"
    ELSE IF fault = "build_in" THEN "Failed to build input stream"
    ELSE IF fault = "build_out" THEN "Failed to build output stream"
    ELSE IF fault = "play_in" THEN "Failed to start input stream"
    ELSE IF fault = "play_out" THEN "Failed to start output stream"
    ELSE "ok"

\* The history is that of the session of the ring
SessionHistoryReset ==
    /\ delivered' = << >>
    /\ accepted' = << >>
    /\ popped' = << >>
    /\ overruns' = 0

\* Dropping a stream ends its callback thread: stop returns once no callback runs
CallbacksIdle == inPc = "idle" /\ outPc = "idle"

\* a stop that releases the streams and leaves is_active as it is
AudioCapture_stop_capture_fields_KeepsActive ==
    /\ input_stream' = FALSE
    /\ output_stream' = FALSE
    /\ buffer_capacity' = 0
    /\ UNCHANGED is_active

\* a stop that clears the flags and keeps the streams
AudioCapture_stop_capture_fields_KeepsStreams ==
    /\ is_active' = FALSE
    /\ buffer_capacity' = 0
    /\ UNCHANGED << input_stream, output_stream >>

\* what stop_capture does to the controller
AudioCapture_stop_capture_fields ==
    /\ input_stream' = FALSE
    /\ output_stream' = FALSE
    /\ is_active' = FALSE
    /\ buffer_capacity' = 0

AudioCapture_stop_capture ==
    /\ CallbacksIdle
    /\ AudioCapture_stop_capture_fields
    /\ UNCHANGED << volume, audio_passthrough_enabled, raw_audio_consumer,
                    processed_audio_consumer, ring, inFormat, outFormat,
                    producerLock, consumerLock, inPc, inData, outPc, outVol,
                    outLeft, outBuf, audioResult, audioNamedAbsent, delivered, accepted, popped,
                    overruns, outTaken, outRing0, outPushed >>

AudioCapture_start_passthrough_with_settings(inName, outName, env) ==
    LET outcome == AudioStartOutcome(inName, outName, env.fault) IN
    /\ CallbacksIdle
    /\ audioResult' = IF outcome = "ok" THEN "Ok"
                      ELSE IF is_active THEN "ErrWhileActive" ELSE "Err"
    /\ audioNamedAbsent' = (\/ inName # None /\ inName[1] \notin InputDevices
                            \/ outName # None /\ outName[1] \notin OutputDevices)
    /\ IF outcome = "ok"
       THEN /\ ring' = RingNew(RingCapacity(env.cfg[1], env.cfg[2]))
            /\ inFormat' = env.inFmt
            /\ outFormat' = env.outFmt
            /\ input_stream' = TRUE
            /\ output_stream' = TRUE
            /\ is_active' = TRUE
            /\ buffer_capacity' = 0
            /\ raw_audio_consumer' = TRUE
            /\ processed_audio_consumer' = TRUE
            /\ SessionHistoryReset
       ELSE /\ AudioCapture_stop_capture_fields
            /\ UNCHANGED << ring, inFormat, outFormat, raw_audio_consumer,
                            processed_audio_consumer, delivered, accepted, popped,
                            overruns >>
    /\ UNCHANGED << volume, audio_passthrough_enabled, producerLock, consumerLock,
                    inPc, inData, outPc, outVol, outLeft, outBuf, outTaken,
                    outRing0, outPushed >>

AudioCapture_set_volume(volume_percent) ==
    /\ volume' = VolumeOf(volume_percent)
    /\ UNCHANGED << input_stream, output_stream, is_active, buffer_capacity,
                    audio_passthrough_enabled, raw_audio_consumer,
                    processed_audio_consumer, ring, inFormat, outFormat,
                    producerLock, consumerLock, inPc, inData, outPc, outVol,
                    outLeft, outBuf, audioResult, audioNamedAbsent, delivered, accepted, popped,
                    overruns, outTaken, outRing0, outPushed >>

\* a set_audio_passthrough_enabled that mutes the volume when it disables
AudioCapture_set_audio_passthrough_enabled_AlsoMutes(enabled) ==
    /\ audio_passthrough_enabled' = enabled
    /\ volume' = IF enabled THEN volume ELSE 0
    /\ UNCHANGED << input_stream, output_stream, is_active, buffer_capacity,
                    raw_audio_consumer, processed_audio_consumer, ring, inFormat,
                    outFormat, producerLock, consumerLock, inPc, inData, outPc,
                    outVol, outLeft, outBuf, audioResult, audioNamedAbsent,
                    delivered, accepted, popped, overruns, outTaken, outRing0,
                    outPushed >>

AudioCapture_set_audio_passthrough_enabled(enabled) ==
    /\ audio_passthrough_enabled' = enabled
    /\ UNCHANGED << input_stream, output_stream, is_active, buffer_capacity,
                    volume, raw_audio_consumer,
                    processed_audio_consumer, ring, inFormat, outFormat,
                    producerLock, consumerLock, inPc, inData, outPc, outVol,
                    outLeft, outBuf, audioResult, audioNamedAbsent, delivered, accepted, popped,
                    overruns, outTaken, outRing0, outPushed >>

----------------------------------------------------------------------------
(* The input callback: try_lock the producer, push every sample, unlock *)

InputCallbackBegin(data) ==
    /\ input_stream
    /\ inPc = "idle"
    /\ Len(delivered) + Len(data) <= MaxDelivered
    /\ delivered' = delivered \o data
    /\ IF producerLock = "free"
       THEN /\ producerLock' = "input"
            /\ inPc' = "locked"
            /\ inData' = data
       ELSE \* the buffer is skipped
            UNCHANGED << producerLock, inPc, inData >>
    /\ UNCHANGED << input_stream, output_stream, is_active, volume, buffer_capacity,
                    audio_passthrough_enabled, raw_audio_consumer,
                    processed_audio_consumer, ring, inFormat, outFormat,
                    consumerLock, outPc, outVol, outLeft, outBuf, audioResult, audioNamedAbsent,
                    accepted, popped, overruns, outTaken, outRing0, outPushed >>

\* an input callback that returns with the producer still locked
InputCallbackPush_KeepsLock ==
    /\ inPc = "locked"
    /\ inData # << >>
    /\ LET sample == InputConvert(inFormat, Head(inData))
           r == RingPush(ring, sample)
       IN  /\ ring' = r.rb
           /\ accepted' = IF r.ok THEN Append(accepted, sample) ELSE accepted
           /\ overruns' = IF r.ok THEN overruns ELSE overruns + 1
    /\ inData' = Tail(inData)
    /\ outPushed' = (outPushed \/ outPc = "locked")
    /\ IF Tail(inData) = << >>
       THEN inPc' = "idle" /\ UNCHANGED producerLock
       ELSE UNCHANGED << producerLock, inPc >>
    /\ UNCHANGED << input_stream, output_stream, is_active, volume, buffer_capacity,
                    audio_passthrough_enabled, raw_audio_consumer,
                    processed_audio_consumer, inFormat, outFormat,
                    consumerLock, outPc, outVol, outLeft, outBuf, audioResult, audioNamedAbsent,
                    delivered, popped, outTaken, outRing0 >>

InputCallbackPush ==
    /\ inPc = "locked"
    /\ inData # << >>
    /\ LET sample == InputConvert(inFormat, Head(inData))
           r == RingPush(ring, sample)
       IN  /\ ring' = r.rb
           /\ accepted' = IF r.ok THEN Append(accepted, sample) ELSE accepted
           /\ overruns' = IF r.ok THEN overruns ELSE overruns + 1
    /\ inData' = Tail(inData)
    /\ outPushed' = (outPushed \/ outPc = "locked")
    /\ IF Tail(inData) = << >>
       THEN producerLock' = "free" /\ inPc' = "idle"
       ELSE UNCHANGED << producerLock, inPc >>
    /\ UNCHANGED << input_stream, output_stream, is_active, volume, buffer_capacity,
                    audio_passthrough_enabled, raw_audio_consumer,
                    processed_audio_consumer, inFormat, outFormat,
                    consumerLock, outPc, outVol, outLeft, outBuf, audioResult, audioNamedAbsent,
                    delivered, popped, outTaken, outRing0 >>

----------------------------------------------------------------------------
(* The output callback: read the volume, try_lock the consumer, fill every *)
(* slot from pop or with silence, unlock                                   *)

RECURSIVE Fill(_, _)
Fill(n, x) == IF n = 0 THEN << >> ELSE << x >> \o Fill(n - 1, x)

OutputCallbackBegin(n) ==
    /\ output_stream
    /\ outPc = "idle"
    /\ outVol' = volume
    /\ outRing0' = ring.buf
    /\ outPushed' = FALSE
    /\ IF consumerLock = "free"
       THEN /\ consumerLock' = "output"
            /\ outPc' = "locked"
            /\ outLeft' = n
            /\ outBuf' = << >>
            /\ outTaken' = << >>
       ELSE \* data.fill(0)
            /\ outBuf' = Fill(n, Silence)
            /\ outTaken' = Fill(n, None)
            /\ outPc' = "silent"
            /\ UNCHANGED << consumerLock, outLeft >>
    /\ UNCHANGED << input_stream, output_stream, is_active, volume, buffer_capacity,
                    audio_passthrough_enabled, raw_audio_consumer,
                    processed_audio_consumer, ring, inFormat, outFormat,
                    producerLock, inPc, inData, audioResult, audioNamedAbsent,
                    delivered, accepted, popped, overruns >>

OutputCallbackSlot ==
    /\ outPc = "locked"
    /\ outLeft > 0
    /\ LET r == RingPop(ring) IN
       /\ ring' = r.rb
       /\ outBuf' = Append(outBuf, SlotValue(outFormat, r.val, outVol))
       /\ outTaken' = Append(outTaken, r.val)
       /\ popped' = popped \o r.val
    /\ outLeft' = outLeft - 1
    /\ UNCHANGED << input_stream, output_stream, is_active, volume, buffer_capacity,
                    audio_passthrough_enabled, raw_audio_consumer,
                    processed_audio_consumer, inFormat, outFormat,
                    producerLock, consumerLock, inPc, inData, outPc, outVol,
                    audioResult, audioNamedAbsent, delivered, accepted, overruns, outRing0, outPushed >>

\* the buffer is handed back to the device: the guard is dropped
OutputCallbackReturn ==
    /\ outPc \in { "locked", "silent" }
    /\ outLeft = 0
    /\ outPc' = "idle"
    /\ consumerLock' = IF outPc = "locked" THEN "free" ELSE consumerLock
    /\ outVol' = VolUnit
    /\ outBuf' = << >>
    /\ outTaken' = << >>
    /\ outRing0' = << >>
    /\ outPushed' = FALSE
    /\ UNCHANGED << input_stream, output_stream, is_active, volume, buffer_capacity,
                    audio_passthrough_enabled, raw_audio_consumer,
                    processed_audio_consumer, ring, inFormat, outFormat,
                    producerLock, inPc, inData, outLeft, audioResult, audioNamedAbsent,
                    delivered, accepted, popped, overruns >>

----------------------------------------------------------------------------
(* The pixel converter *)

Clamp255(x) == Max(0, Min(255, x))

\* a conversion that takes u for v and v for u
Yuy2Chunk_SwappedChroma(y0, u, y1, v) ==
    LET c0 == y0 - 16
        c1 == y1 - 16
        d  == v - 128
        e  == u - 128
        r0 == (1192 * c0 + 1634 * e) \div 1024
        g0 == (1192 * c0 - 401 * d - 833 * e) \div 1024
        b0 == (1192 * c0 + 2066 * d) \div 1024
        r1 == (1192 * c1 + 1634 * e) \div 1024
        g1 == (1192 * c1 - 401 * d - 833 * e) \div 1024
        b1 == (1192 * c1 + 2066 * d) \div 1024
    IN  << Clamp255(r0), Clamp255(g0), Clamp255(b0),
           Clamp255(r1), Clamp255(g1), Clamp255(b1) >>

\* a conversion that takes 127 for the chroma offset
Yuy2Chunk_ChromaOffset127(y0, u, y1, v) ==
    LET c0 == y0 - 16
        c1 == y1 - 16
        d  == u - 127
        e  == v - 127
        r0 == (1192 * c0 + 1634 * e) \div 1024
        g0 == (1192 * c0 - 401 * d - 833 * e) \div 1024
        b0 == (1192 * c0 + 2066 * d) \div 1024
        r1 == (1192 * c1 + 1634 * e) \div 1024
        g1 == (1192 * c1 - 401 * d - 833 * e) \div 1024
        b1 == (1192 * c1 + 2066 * d) \div 1024
    IN  << Clamp255(r0), Clamp255(g0), Clamp255(b0),
           Clamp255(r1), Clamp255(g1), Clamp255(b1) >>

\* the two RGB pixels of one (y0, u, y1, v) quadruple; >> 10 is a flooring shift
Yuy2Chunk(y0, u, y1, v) ==
    LET c0 == y0 - 16
        c1 == y1 - 16
        d  == u - 128
        e  == v - 128
        r0 == (1192 * c0 + 1634 * e) \div 1024
        g0 == (1192 * c0 - 401 * d - 833 * e) \div 1024
        b0 == (1192 * c0 + 2066 * d) \div 1024
        r1 == (1192 * c1 + 1634 * e) \div 1024
        g1 == (1192 * c1 - 401 * d - 833 * e) \div 1024
        b1 == (1192 * c1 + 2066 * d) \div 1024
    IN  << Clamp255(r0), Clamp255(g0), Clamp255(b0),
           Clamp255(r1), Clamp255(g1), Clamp255(b1) >>

\* a conversion that returns as many bytes as it is given
yuy2_to_rgb_naive_SourceLength(width, height, src) == [ i \in 1..Len(src) |-> 0 ]

\* out is width * height * 3 zero bytes; the 4-byte chunks of src are zipped
\* with the 6-byte chunks of out, so the shorter of the two ends the loop
yuy2_to_rgb_naive(width, height, src) ==
    LET outLen == width * height * 3
        chunks == Min(Len(src) \div 4, outLen \div 6)
    IN  [ i \in 1..outLen |->
            IF (i - 1) \div 6 < chunks
            THEN LET c == (i - 1) \div 6
                     q == Yuy2Chunk(src[4 * c + 1], src[4 * c + 2],
                                    src[4 * c + 3], src[4 * c + 4])
                 IN  q[((i - 1) % 6) + 1]
            ELSE 0 ]

----------------------------------------------------------------------------
(* What a camera delivers: nokhwa::Buffer with its resolution, its source    *)
(* format, its bytes and what the generic decode_image makes of it          *)

RawFrames ==
    { \* YUYV 2x1, black
      [ format |-> "YUYV", width |-> 2, height |-> 1,
        bytes |-> << 16, 128, 16, 128 >>, decoded |-> None ],
      \* YUYV 2x1, a colour that clamps
      [ format |-> "YUYV", width |-> 2, height |-> 1,
        bytes |-> << 235, 16, 81, 240 >>, decoded |-> None ],
      \* YUYV 2x1, buffer too short
      [ format |-> "YUYV", width |-> 2, height |-> 1,
        bytes |-> << 16, 128 >>, decoded |-> None ],
      \* YUYV of odd width, which the generic decoder accepts
      [ format |-> "YUYV", width |-> 1, height |-> 1,
        bytes |-> << 16, 128 >>, decoded |-> Some(<< 9, 9, 9 >>) ],
      \* YUYV of odd width, which the generic decoder rejects
      [ format |-> "YUYV", width |-> 1, height |-> 1,
        bytes |-> << 16 >>, decoded |-> None ],
      \* MJPEG 2x1, decodable
      [ format |-> "MJPEG", width |-> 2, height |-> 1,
        bytes |-> << 255, 216 >>, decoded |-> Some(<< 1, 2, 3, 4, 5, 6 >>) ],
      \* MJPEG 2x1, corrupt
      [ format |-> "MJPEG", width |-> 2, height |-> 1,
        bytes |-> << 0 >>, decoded |-> None ] }

\* milliseconds between two frames, and a decode time, as the clock gives them
FrameIntervals == { 16 }
DecodeTimes == { 1 }

VideoFaults == { "query", "no_devices", "create", "open" }
VideoDevices == { "A" }

----------------------------------------------------------------------------
(* FrameBuffer *)

FrameBufferNew ==
    [ front |-> None, back |-> None, dirty |-> FALSE,
      last_frame_instant |-> None, frame_intervals |-> << >>,
      last_decode_ms |-> 0, fast_count |-> 0, fallback_count |-> 0 ]

\* a push_back that keeps a frame the consumer has not taken yet
push_back_KeepUnpolled(fb, frame, decode_ms, fast, dt) ==
    [ fb EXCEPT
        !.back = IF fb.dirty THEN @ ELSE Some(frame),
        !.dirty = TRUE,
        !.last_decode_ms = decode_ms,
        !.fast_count = IF fast THEN @ + 1 ELSE @,
        !.fallback_count = IF fast THEN @ ELSE @ + 1,
        !.last_frame_instant = Some("now") ]

\* a push_back that appends to the interval history without evicting
push_back_NoEviction(fb, frame, decode_ms, fast, dt) ==
    [ fb EXCEPT
        !.back = Some(frame),
        !.dirty = TRUE,
        !.last_decode_ms = decode_ms,
        !.fast_count = IF fast THEN @ + 1 ELSE @,
        !.fallback_count = IF fast THEN @ ELSE @ + 1,
        !.last_frame_instant = Some("now"),
        !.frame_intervals = IF fb.last_frame_instant # None THEN Append(@, dt) ELSE @ ]

\* `dt` is now - prev in milliseconds, used when there is a previous instant
push_back(fb, frame, decode_ms, fast, dt) ==
    [ fb EXCEPT
        !.back = Some(frame),
        !.dirty = TRUE,
        !.last_decode_ms = decode_ms,
        !.fast_count = IF fast THEN @ + 1 ELSE @,
        !.fallback_count = IF fast THEN @ ELSE @ + 1,
        !.last_frame_instant = Some("now"),
        !.frame_intervals =
            IF fb.last_frame_instant # None
            THEN Append(IF Len(@) = IntervalHistoryLen THEN Tail(@) ELSE @, dt)
            ELSE @ ]

\* a clone that takes its bytes from the back slot
take_front_TornClone(fb) ==
    LET sw == IF fb.dirty
              THEN [ fb EXCEPT !.front = fb.back, !.back = fb.front, !.dirty = FALSE ]
              ELSE fb
    IN  [ fb |-> sw,
          frame |-> IF sw.front = None THEN None
                    ELSE Some([ width |-> sw.front[1].width,
                                height |-> sw.front[1].height,
                                data |-> IF sw.back = None THEN << >>
                                         ELSE sw.back[1].data ]) ]

\* a take_front that forgets to clear the dirty flag
take_front_KeepDirty(fb) ==
    LET sw == IF fb.dirty
              THEN [ fb EXCEPT !.front = fb.back, !.back = fb.front ]
              ELSE fb
    IN  [ fb |-> sw, frame |-> sw.front ]

\* the buffer after the call and the frame returned
take_front(fb) ==
    LET sw == IF fb.dirty
              THEN [ fb EXCEPT !.front = fb.back, !.back = fb.front, !.dirty = FALSE ]
              ELSE fb
    IN  [ fb |-> sw,
          frame |-> IF sw.front = None THEN None
                    ELSE Some([ width |-> sw.front[1].width,
                                height |-> sw.front[1].height,
                                data |-> sw.front[1].data ]) ]

\* a clear_old_frames that empties the back slot whatever the dirty flag
clear_old_frames_Always(fb) == [ fb EXCEPT !.back = None ]

clear_old_frames(fb) ==
    IF fb.back # None /\ ~fb.dirty THEN [ fb EXCEPT !.back = None ] ELSE fb

\* get_latest_frame under the lock: take_front, then clear_old_frames
get_latest_frame(fb) ==
    LET t == take_front(fb)
    IN  [ fb |-> clear_old_frames(t.fb), frame |-> t.frame ]

----------------------------------------------------------------------------
(* VideoCapture *)

CbThreads == { "cb", "stale" }

NoFrame == [ frame |-> None, fast |-> FALSE, decode_ms |-> 0 ]

InitVideo ==
    /\ camera = FALSE
    /\ video_is_active = FALSE
    /\ frames = FrameBufferNew
    /\ fbLock = "free"
    /\ cbPc = [ t \in CbThreads |-> "idle" ]
    /\ cbFrame = [ t \in CbThreads |-> NoFrame ]
    /\ uiPc = "idle"
    /\ returned = None
    /\ videoResult = "none"
    /\ videoNamedAbsent = FALSE
    /\ pushed = { }
    /\ lastPushed = None
    /\ pushesSincePoll = 0
    /\ polledOver = -1
    /\ fromStale = { }
    /\ cbDropped = FALSE

\* Which step of start_capture fails, if any
VideoStartOutcome(device_name, fault) ==
    IF fault = "query" THEN "Failed to query devices"
    ELSE IF device_name # None /\ (fault = "no_devices" \/ device_name[1] \notin VideoDevices)
         THEN "Device not found"
    ELSE IF device_name = None /\ fault = "no_devices" THEN "No video devices found"
    ELSE IF fault = "create" THEN "Failed to create camera"
    ELSE IF fault = "open" THEN "Failed to open camera stream"
    ELSE "ok"

\* stop_capture takes the camera and then locks frames: it goes on once the
\* lock is free.  A callback of the stopped camera that has decoded its frame
\* and not yet stored it stays in flight.
VideoCapture_stop_capture_enabled ==
    /\ uiPc = "idle"
    /\ fbLock = "free"
    /\ cbPc["cb"] = "idle" \/ cbPc["stale"] = "idle"

\* a stop that leaves the frame buffer as it is
VideoCapture_stop_capture_frames_KeepsFrames ==
    /\ IF cbPc["cb"] # "idle"
       THEN /\ cbPc' = [ cb |-> "idle", stale |-> cbPc["cb"] ]
            /\ cbFrame' = [ cb |-> NoFrame, stale |-> cbFrame["cb"] ]
       ELSE UNCHANGED << cbPc, cbFrame >>
    /\ returned' = None
    /\ pushed' = { }
    /\ lastPushed' = None
    /\ pushesSincePoll' = 0
    /\ polledOver' = -1
    /\ fromStale' = { }
    /\ cbDropped' = FALSE
    /\ UNCHANGED << frames, fbLock, uiPc >>

VideoCapture_stop_capture_frames ==
    /\ frames' = FrameBufferNew
    /\ IF cbPc["cb"] # "idle"
       THEN /\ cbPc' = [ cb |-> "idle", stale |-> cbPc["cb"] ]
            /\ cbFrame' = [ cb |-> NoFrame, stale |-> cbFrame["cb"] ]
       ELSE UNCHANGED << cbPc, cbFrame >>
    /\ returned' = None
    /\ pushed' = { }
    /\ lastPushed' = None
    /\ pushesSincePoll' = 0
    /\ polledOver' = -1
    /\ fromStale' = { }
    /\ cbDropped' = FALSE
    /\ UNCHANGED << fbLock, uiPc >>

VideoCapture_stop_capture ==
    /\ VideoCapture_stop_capture_enabled
    /\ camera' = FALSE
    /\ video_is_active' = FALSE
    /\ VideoCapture_stop_capture_frames
    /\ UNCHANGED << videoResult, videoNamedAbsent >>

VideoCapture_start_capture(device_name, fault) ==
    LET outcome == VideoStartOutcome(device_name, fault) IN
    /\ VideoCapture_stop_capture_enabled
    /\ VideoCapture_stop_capture_frames
    /\ videoResult' = IF outcome = "ok" THEN "Ok"
                      ELSE IF video_is_active THEN "ErrWhileActive" ELSE "Err"
    /\ videoNamedAbsent' = (device_name # None /\ device_name[1] \notin VideoDevices)
    /\ camera' = (outcome = "ok")
    /\ video_is_active' = (outcome = "ok")

----------------------------------------------------------------------------
(* The frame callback *)

\* a callback that converts a YUYV buffer whatever its length
DecodeFrame_ConvertsShort(raw) ==
    IF raw.format = "YUYV" /\ raw.width % 2 = 0
    THEN [ rgb |-> Some(yuy2_to_rgb_naive(raw.width, raw.height, raw.bytes)),
           fast |-> TRUE ]
    ELSE [ rgb |-> raw.decoded, fast |-> FALSE ]

\* rgb_vec and used_fast for one delivered buffer
DecodeFrame(raw) ==
    IF raw.format = "YUYV" /\ raw.width % 2 = 0
    THEN IF Len(raw.bytes) >= raw.width * raw.height * 2
         THEN [ rgb |-> Some(yuy2_to_rgb_naive(raw.width, raw.height, raw.bytes)),
                fast |-> TRUE ]
         ELSE [ rgb |-> None, fast |-> FALSE ]
    ELSE [ rgb |-> raw.decoded, fast |-> FALSE ]

FrameCallbackDecode(raw, decode_ms) ==
    /\ camera
    /\ cbPc["cb"] = "idle"
    /\ frames.fast_count + frames.fallback_count < MaxFrames
    /\ LET d == DecodeFrame(raw) IN
       IF d.rgb # None
       THEN /\ cbPc' = [ cbPc EXCEPT !["cb"] = "decoded" ]
            /\ cbFrame' = [ cbFrame EXCEPT !["cb"] =
                              [ frame |-> Some([ width |-> raw.width,
                                                 height |-> raw.height,
                                                 data |-> d.rgb[1] ]),
                                fast |-> d.fast, decode_ms |-> decode_ms ] ]
       ELSE UNCHANGED << cbPc, cbFrame >>
    /\ cbDropped' = (DecodeFrame(raw).rgb = None)
    /\ UNCHANGED << camera, video_is_active, frames, fbLock, uiPc, returned,
                    videoResult, videoNamedAbsent, pushed, lastPushed, pushesSincePoll,
            polledOver, fromStale >>

\* fb.lock(): the callback waits until the mutex is free
FrameCallbackLock(t) ==
    /\ cbPc[t] = "decoded"
    /\ fbLock = "free"
    /\ fbLock' = t
    /\ cbPc' = [ cbPc EXCEPT ![t] = "locked" ]
    /\ cbDropped' = FALSE
    /\ UNCHANGED << camera, video_is_active, frames, cbFrame, uiPc, returned,
                    videoResult, videoNamedAbsent, pushed, lastPushed, pushesSincePoll,
            polledOver, fromStale >>

FrameCallbackPushBack(t, dt) ==
    /\ cbPc[t] = "locked"
    /\ frames' = push_back(frames, cbFrame[t].frame[1], cbFrame[t].decode_ms,
                           cbFrame[t].fast, dt)
    /\ fbLock' = "free"
    /\ cbPc' = [ cbPc EXCEPT ![t] = "idle" ]
    /\ cbFrame' = [ cbFrame EXCEPT ![t] = NoFrame ]
    /\ pushed' = pushed \cup { cbFrame[t].frame[1] }
    /\ lastPushed' = cbFrame[t].frame
    /\ pushesSincePoll' = Min(2, pushesSincePoll + 1)
    /\ fromStale' = IF t = "stale" THEN fromStale \cup { "back" }
                     ELSE fromStale \ { "back" }
    /\ cbDropped' = FALSE
    /\ UNCHANGED << camera, video_is_active, uiPc, returned, videoResult,
                    videoNamedAbsent, polledOver >>

----------------------------------------------------------------------------
(* The UI thread polling for a frame *)

\* where the frames stored by a stopped camera's callback are after
\* get_latest_frame: the swap moves them with their slots, the frame returned
\* is the front one, a cleared back slot holds none
PollOrigins(fb, o) ==
    LET f == IF fb.dirty THEN "back" \in o ELSE "front" \in o
        b == IF fb.dirty THEN "front" \in o ELSE "back" \in o
        g == get_latest_frame(fb)
    IN  { x \in { "front", "returned" } : f /\ g.frame # None }
        \cup { x \in { "back" } : b /\ g.fb.back # None }

VideoCapture_get_latest_frame_lock ==
    /\ uiPc = "idle"
    /\ fbLock = "free"
    /\ fbLock' = "ui"
    /\ uiPc' = "get"
    /\ cbDropped' = FALSE
    /\ UNCHANGED << camera, video_is_active, frames, cbPc, cbFrame, returned,
                    videoResult, videoNamedAbsent, pushed, lastPushed, pushesSincePoll,
            polledOver, fromStale >>

VideoCapture_get_latest_frame ==
    /\ uiPc = "get"
    /\ LET g == get_latest_frame(frames) IN
       /\ frames' = g.fb
       /\ returned' = g.frame
    /\ fbLock' = "free"
    /\ uiPc' = "idle"
    /\ polledOver' = pushesSincePoll
    /\ pushesSincePoll' = 0
    /\ fromStale' = PollOrigins(frames, fromStale)
    /\ cbDropped' = FALSE
    /\ UNCHANGED << camera, video_is_active, cbPc, cbFrame, videoResult, videoNamedAbsent, pushed,
                    lastPushed >>

NextVideo ==
    \/ \E name \in OptionNames, fault \in VideoFaults \cup { "none" } :
            VideoCapture_start_capture(name, fault) /\ UNCHANGED << avars, tvars, uvars, wvars >>
    \/ VideoCapture_stop_capture /\ UNCHANGED << avars, tvars, uvars, wvars >>
    \/ \E raw \in RawFrames, ms \in DecodeTimes :
            FrameCallbackDecode(raw, ms) /\ UNCHANGED << avars, tvars, uvars, wvars >>
    \/ \E t \in CbThreads : FrameCallbackLock(t) /\ UNCHANGED << avars, tvars, uvars, wvars >>
    \/ \E t \in CbThreads, dt \in FrameIntervals :
            FrameCallbackPushBack(t, dt) /\ UNCHANGED << avars, tvars, uvars, wvars >>
    \/ VideoCapture_get_latest_frame_lock /\ UNCHANGED << avars, tvars, uvars, wvars >>
    \/ VideoCapture_get_latest_frame /\ UNCHANGED << avars, tvars, uvars, wvars >>

----------------------------------------------------------------------------

NextAudio ==
    \/ \E inName \in OptionNames, outName \in OptionNames, env \in AudioEnvs :
            AudioCapture_start_passthrough_with_settings(inName, outName, env) /\ UNCHANGED << vvars, tvars, uvars, wvars >>
    \/ AudioCapture_stop_capture /\ UNCHANGED << vvars, tvars, uvars, wvars >>
    \/ \E p \in VolumePercents : AudioCapture_set_volume(p) /\ UNCHANGED << vvars, tvars, uvars, wvars >>
    \/ \E b \in BOOLEAN : AudioCapture_set_audio_passthrough_enabled(b) /\ UNCHANGED << vvars, tvars, uvars, wvars >>
    \/ \E n \in 1..MaxInBuf :
            InputCallbackBegin(HwBuffer(inFormat, Len(delivered), n)) /\ UNCHANGED << vvars, tvars, uvars, wvars >>
    \/ InputCallbackPush /\ UNCHANGED << vvars, tvars, uvars, wvars >>
    \/ \E n \in 1..MaxOutBuf : OutputCallbackBegin(n) /\ UNCHANGED << vvars, tvars, uvars, wvars >>
    \/ OutputCallbackSlot /\ UNCHANGED << vvars, tvars, uvars, wvars >>
    \/ OutputCallbackReturn /\ UNCHANGED << vvars, tvars, uvars, wvars >>

----------------------------------------------------------------------------
(* A ring on its own: `planned` pushes of the given samples, then as many    *)
(* pops as the ring has room for                                           *)

RingTestSamples == { -F32Unit, 0, F32Unit }

RingTestIdle ==
    [ pc |-> "off", cap |-> 0, input |-> << >>, planned |-> 0,
      rb |-> RingNew(0), oks |-> << >>, out |-> << >> ]

InitRingTest ==
    \E cap \in 1..MaxRingCap :
        \E input \in [ 1..(cap + 1) -> RingTestSamples ], planned \in { cap, cap + 1 } :
            ringTest = [ pc |-> "push", cap |-> cap, input |-> input, planned |-> planned,
                         rb |-> RingNew(cap), oks |-> << >>, out |-> << >> ]

RingTestPush ==
    /\ ringTest.pc = "push"
    /\ LET i == Len(ringTest.oks) + 1
           r == RingPush(ringTest.rb, ringTest.input[i])
       IN  ringTest' = [ ringTest EXCEPT
                           !.rb = r.rb,
                           !.oks = Append(@, r.ok),
                           !.pc = IF i = ringTest.planned THEN "pop" ELSE "push" ]
    /\ UNCHANGED << avars, vvars, volumeTest, capacityTest, pushTest, yuyTest, uvars, wvars >>

RingTestPop ==
    /\ ringTest.pc = "pop"
    /\ LET r == RingPop(ringTest.rb)
       IN  ringTest' = [ ringTest EXCEPT
                           !.rb = r.rb,
                           !.out = Append(@, r.val),
                           !.pc = IF Len(ringTest.out) + 1 = ringTest.cap
                                  THEN "done" ELSE "pop" ]
    /\ UNCHANGED << avars, vvars, volumeTest, capacityTest, pushTest, yuyTest, uvars, wvars >>

NextRingTest == RingTestPush \/ RingTestPop

VolumeTestIdle == [ pc |-> "off", percent |-> 100 ]

PushTestIdle ==
    [ pc |-> "off", fast |-> FALSE, fb |-> FrameBufferNew, calls |-> 0, dts |-> << >> ]

YuyTestIdle == [ pc |-> "off", width |-> 0, height |-> 0, src |-> << >>, out |-> << >> ]

\* the settings apply_settings reads (settings.rs:16-32): the devices named,
\* if any, and the resolution and sample rate asked for
NoSettings ==
    [ video_device_name |-> None, resolution |-> None, format |-> None, fps |-> None,
      input_device_name |-> None, output_device_name |-> None, sample_rate |-> None,
      channels |-> None, volume |-> 100, passthrough_enabled |-> TRUE ]

\* the last applied parameters of CaptureCardViewer::default (main.rs:92-98)
NothingApplied ==
    [ last_video_device |-> None, last_video_res |-> None,
      last_video_format |-> None, last_video_fps |-> None,
      last_audio_device |-> None, last_audio_rate |-> None,
      last_audio_channels |-> None, audio_last_error |-> FALSE ]

\* `session_output` remembers the output device name given to the start that
\* opened the running passthrough session
\* update's clock at construction: startup_time and last_settings_applied are
\* Instant::now(), nothing triggered (main.rs:88, 103-104)
StartupIdle ==
    [ now |-> 0, delayed_connection_triggered |-> FALSE, last_settings_applied |-> 0,
      phase |-> "idle", first_late |-> None, initial_at |-> << >> ]

\* ScreenshotManager::new (screenshot.rs:19-29): the flag clear,
\* last_trigger_time = Instant::now()
HotkeyIdle ==
    [ now |-> 0, pressed |-> FALSE, last_trigger_time |-> 0, presses |-> 0,
      calls |-> << >> ]

\* the dialog closed, over the default audio settings (settings.rs:66-74;
\* main.rs:80), TEMP_SETTINGS empty
DialogIdle ==
    [ show_settings |-> FALSE,
      settings |-> [ sample_rate |-> Some(48000), channels |-> Some(2) ],
      temp |-> None, opened_with |-> None, last |-> "none", ret |-> FALSE ]

\* the UI thread, the two audio callbacks, the frame callback and the hotkey
\* listener thread
LockThreads == { "ui", "input", "output", "video", "listener" }

\* the mutexes: CaptureCardViewer's (main.rs:21-25), the statics of ui.rs
\* (ui.rs:10-13, 30), AudioCapture's (audio.rs:9-25, 114-118), VideoCapture's
\* frame buffer (video.rs:105) and ScreenshotManager's (screenshot.rs:11-15)
LockMutexes ==
    { "settings", "video_capture", "audio_capture", "screenshot_manager",
      "TEMP_SETTINGS", "SELECTED_TAB", "DEVICE_CAPABILITIES_CACHE",
      "volume", "audio_passthrough_enabled", "producer", "consumer", "frames",
      "is_hotkey_pressed", "last_trigger_time", "listener_shutdown" }

\* no mutex held, no thread inside a function
LocksIdle ==
    [ holder |-> [ m \in LockMutexes |-> "none" ],
      pc |-> [ t \in LockThreads |-> << >> ] ]

ApplyIdle ==
    [ pc |-> "idle", initial |-> FALSE, settings |-> NoSettings, attempt |-> 0,
      video_success |-> FALSE, audio_success |-> FALSE, starts |-> << >>,
      session_output |-> None ]

\* the application after CaptureCardViewer::default (main.rs:68-105): no test
\* sound requested, no device connected yet, apply_settings not running
InitApp ==
    /\ test_sound_flag = FALSE
    /\ soundHistory = [ requests |-> 0, polls |-> 0, plays |-> 0, pending |-> 0,
                        last |-> "none" ]
    /\ viewer = NothingApplied
    /\ applyRun = ApplyIdle
    /\ available = FALSE
    /\ startup = StartupIdle
    /\ hotkey = HotkeyIdle
    /\ dialog = DialogIdle
    /\ locks = LocksIdle

CapacityTestIdle == [ pc |-> "off", cfg |-> << 0, 0 >> ]

Init ==
    /\ InitAudio
    /\ InitVideo
    /\ InitApp
    /\ ringTest = RingTestIdle
    /\ volumeTest = VolumeTestIdle
    /\ capacityTest = CapacityTestIdle
    /\ pushTest = PushTestIdle
    /\ yuyTest = YuyTestIdle

\* the frames of a camera that delivers one picture, in YUYV
ControlFrames == { r \in RawFrames : r.bytes = << 16, 128, 16, 128 >> }

\* the two controllers driven by the application, the camera delivering frames
NextControllers ==
    \/ \E inName \in OptionNames, outName \in OptionNames, env \in AudioEnvs :
            AudioCapture_start_passthrough_with_settings(inName, outName, env) /\ UNCHANGED << vvars, tvars, uvars, wvars >>
    \/ AudioCapture_stop_capture /\ UNCHANGED << vvars, tvars, uvars, wvars >>
    \/ \E name \in OptionNames, fault \in VideoFaults \cup { "none" } :
            VideoCapture_start_capture(name, fault) /\ UNCHANGED << avars, tvars, uvars, wvars >>
    \/ VideoCapture_stop_capture /\ UNCHANGED << avars, tvars, uvars, wvars >>
    \/ \E raw \in ControlFrames, ms \in DecodeTimes :
            FrameCallbackDecode(raw, ms) /\ UNCHANGED << avars, tvars, uvars, wvars >>
    \/ \E t \in CbThreads : FrameCallbackLock(t) /\ UNCHANGED << avars, tvars, uvars, wvars >>
    \/ \E t \in CbThreads, dt \in FrameIntervals :
            FrameCallbackPushBack(t, dt) /\ UNCHANGED << avars, tvars, uvars, wvars >>
    \/ VideoCapture_get_latest_frame_lock /\ UNCHANGED << avars, tvars, uvars, wvars >>
    \/ VideoCapture_get_latest_frame /\ UNCHANGED << avars, tvars, uvars, wvars >>

\* the audio passthrough engine
SpecAudio == Init /\ [][NextAudio]_vars

\* the video frame pipeline
SpecVideo == Init /\ [][NextVideo]_vars

\* a ring of every capacity up to MaxRingCap, filled and emptied
InitRing ==
    /\ InitAudio
    /\ InitVideo
    /\ InitApp
    /\ InitRingTest
    /\ volumeTest = VolumeTestIdle
    /\ capacityTest = CapacityTestIdle
    /\ pushTest = PushTestIdle
    /\ yuyTest = YuyTestIdle

SpecRing == InitRing /\ [][NextRingTest]_vars

\* the lifecycle of the two controllers
SpecControllers == Init /\ [][NextControllers]_vars

----------------------------------------------------------------------------
(* set_volume on its own: one call with a percentage of VolumeTestPercents *)

VolumeTestPercents == (0 - MaxPercent)..MaxPercent

InitVolumeTest ==
    /\ InitAudio
    /\ InitVideo
    /\ ringTest = RingTestIdle
    /\ InitApp
    /\ volumeTest \in [ pc : { "ready" }, percent : VolumeTestPercents ]
    /\ capacityTest = CapacityTestIdle
    /\ pushTest = PushTestIdle
    /\ yuyTest = YuyTestIdle

VolumeTestSet ==
    /\ volumeTest.pc = "ready"
    /\ AudioCapture_set_volume(volumeTest.percent)
    /\ volumeTest' = [ volumeTest EXCEPT !.pc = "set" ]
    /\ UNCHANGED << vvars, ringTest, capacityTest, pushTest, yuyTest, uvars, wvars >>

NextVolumeTest == VolumeTestSet

\* set_volume applied to every percentage from -MaxPercent to MaxPercent
SpecVolume == InitVolumeTest /\ [][NextVolumeTest]_vars

----------------------------------------------------------------------------
(* start_passthrough_with_settings on its own, on default devices of every  *)
(* sample rate that is a multiple of 50 Hz up to MaxSampleRate and of 1 to  *)
(* MaxChannels channels                                                     *)

CapacityTestConfigs ==
    { << r, c >> : r \in { x \in 1..MaxSampleRate : x % 50 = 0 }, c \in 1..MaxChannels }

InitCapacityTest ==
    /\ InitAudio
    /\ InitVideo
    /\ ringTest = RingTestIdle
    /\ volumeTest = VolumeTestIdle
    /\ capacityTest \in [ pc : { "ready" }, cfg : CapacityTestConfigs ]
    /\ InitApp
    /\ pushTest = PushTestIdle
    /\ yuyTest = YuyTestIdle

CapacityTestStart ==
    /\ capacityTest.pc = "ready"
    /\ \E inFmt \in SampleFormats :
          AudioCapture_start_passthrough_with_settings(None, None,
              [ fault |-> "none", cfg |-> capacityTest.cfg,
                inFmt |-> inFmt, outFmt |-> "F32" ])
    /\ capacityTest' = [ capacityTest EXCEPT !.pc = "started" ]
    /\ UNCHANGED << vvars, ringTest, volumeTest, pushTest, yuyTest, uvars, wvars >>

NextCapacityTest == CapacityTestStart

SpecCapacity == InitCapacityTest /\ [][NextCapacityTest]_vars

----------------------------------------------------------------------------
(* push_back on its own: MaxPushes calls on a new FrameBuffer, all on the   *)
(* fast path or all on the fallback path                                    *)

PushTestFrame == [ width |-> 2, height |-> 1, data |-> << 0, 0, 0, 0, 0, 0 >> ]

\* milliseconds between the k-th push_back and the one before it, as the
\* clock gives them: pairwise distinct, so that an interval evicted out of
\* turn shows
PushTestInterval(k) == 10 + k

InitPushTest ==
    /\ InitAudio
    /\ InitVideo
    /\ InitApp
    /\ ringTest = RingTestIdle
    /\ volumeTest = VolumeTestIdle
    /\ capacityTest = CapacityTestIdle
    /\ pushTest \in [ pc : { "push" }, fast : BOOLEAN, fb : { FrameBufferNew },
                       calls : { 0 }, dts : { << >> } ]
    /\ yuyTest = YuyTestIdle

PushTestPush ==
    /\ pushTest.pc = "push"
    /\ pushTest.calls < MaxPushes
    /\ LET dt == PushTestInterval(pushTest.calls + 1)
       IN  pushTest' = [ pushTest EXCEPT
                           !.fb = push_back(@, PushTestFrame, 1, pushTest.fast, dt),
                           !.calls = @ + 1,
                           !.dts = Append(@, dt) ]
    /\ UNCHANGED << avars, vvars, ringTest, volumeTest, capacityTest, yuyTest, uvars, wvars >>

NextPushTest == PushTestPush

SpecPushBack == InitPushTest /\ [][NextPushTest]_vars

----------------------------------------------------------------------------
(* yuy2_to_rgb_naive on its own: one call on a buffer of width * height / 2 *)
(* quadruples followed by some bytes more                                   *)

YuyWidths == { w \in 0..MaxYuyWidth : w % 2 = 0 }
YuyHeights == 0..MaxYuyHeight

\* byte values: the ends of the u8 range, of the nominal luma range and the
\* chroma offset
YuyBytes == { 0, 16, 128, 235, U8Max }

\* bytes that follow the last quadruple in the buffer
YuyExtras == { 0, 1, 4 }

\* a buffer of n quadruples, the i-th being q rotated by i - 1 places, and
\* `extra` bytes more
YuySource(q, n, extra) ==
    [ k \in 1..(4 * n + extra) |->
        IF k <= 4 * n
        THEN q[((((k - 1) % 4) + ((k - 1) \div 4)) % 4) + 1]
        ELSE 77 ]

\* a buffer of n quadruples (y, 128, y, 128)
UniformSource(y, n) == [ k \in 1..(4 * n) |-> IF k % 2 = 1 THEN y ELSE 128 ]

YuyTestOf(width, height, src) ==
    [ pc |-> "ready", width |-> width, height |-> height, src |-> src, out |-> << >> ]

InitYuyTest ==
    /\ InitAudio
    /\ InitVideo
    /\ InitApp
    /\ ringTest = RingTestIdle
    /\ volumeTest = VolumeTestIdle
    /\ capacityTest = CapacityTestIdle
    /\ pushTest = PushTestIdle
    /\ \E w \in YuyWidths, h \in YuyHeights, q \in [ 1..4 -> YuyBytes ],
          extra \in YuyExtras :
            yuyTest = YuyTestOf(w, h, YuySource(q, (w * h) \div 2, extra))

InitGrayTest ==
    /\ InitAudio
    /\ InitVideo
    /\ InitApp
    /\ ringTest = RingTestIdle
    /\ volumeTest = VolumeTestIdle
    /\ capacityTest = CapacityTestIdle
    /\ pushTest = PushTestIdle
    /\ \E w \in YuyWidths \ { 0 }, h \in YuyHeights \ { 0 }, y \in 0..U8Max :
            yuyTest = YuyTestOf(w, h, UniformSource(y, (w * h) \div 2))

YuyTestConvert ==
    /\ yuyTest.pc = "ready"
    /\ yuyTest' = [ yuyTest EXCEPT
                      !.out = yuy2_to_rgb_naive(yuyTest.width, yuyTest.height,
                                                yuyTest.src),
                      !.pc = "done" ]
    /\ UNCHANGED << avars, vvars, ringTest, volumeTest, capacityTest, pushTest, uvars, wvars >>

NextYuyTest == YuyTestConvert

\* the converter on buffers of every even width up to MaxYuyWidth and every
\* height up to MaxYuyHeight
SpecYuy2 == InitYuyTest /\ [][NextYuyTest]_vars

\* the converter on uniform buffers of every luma value
SpecGray == InitGrayTest /\ [][NextYuyTest]_vars

----------------------------------------------------------------------------
(* A camera that delivers YUYV frames of even width with exactly            *)
(* width * height * 2 bytes, in several resolutions                         *)

\* << width, height >> of the frames delivered
FastResolutions == { << 2, 1 >>, << 4, 2 >> }

FastFrames ==
    { [ format |-> "YUYV", width |-> r[1], height |-> r[2],
        bytes |-> YuySource(<< 16, 128, 235, 128 >>, (r[1] * r[2]) \div 2, 0),
        decoded |-> None ] : r \in FastResolutions }

NextFastPath ==
    \/ VideoCapture_start_capture(None, "none") /\ UNCHANGED << avars, tvars, uvars, wvars >>
    \/ \E raw \in FastFrames, ms \in DecodeTimes :
            FrameCallbackDecode(raw, ms) /\ UNCHANGED << avars, tvars, uvars, wvars >>
    \/ \E t \in CbThreads : FrameCallbackLock(t) /\ UNCHANGED << avars, tvars, uvars, wvars >>
    \/ \E t \in CbThreads, dt \in FrameIntervals :
            FrameCallbackPushBack(t, dt) /\ UNCHANGED << avars, tvars, uvars, wvars >>
    \/ VideoCapture_get_latest_frame_lock /\ UNCHANGED << avars, tvars, uvars, wvars >>
    \/ VideoCapture_get_latest_frame /\ UNCHANGED << avars, tvars, uvars, wvars >>

SpecFastPath == Init /\ [][NextFastPath]_vars

----------------------------------------------------------------------------
(* The test sound flag: stored by the settings dialog, swapped by update   *)

\* a poll that reads the flag and leaves it set
should_play_test_sound_LoadOnly(flag) == [ flag |-> flag, ret |-> flag ]

\* TEST_SOUND_FLAG.swap(false, SeqCst): the flag after the call and the value
\* returned
should_play_test_sound(flag) == [ flag |-> FALSE, ret |-> flag ]

\* the test button of the settings dialog: TEST_SOUND_FLAG.store(true, SeqCst)
RequestTestSound ==
    /\ soundHistory.requests < MaxRequests
    /\ test_sound_flag' = TRUE
    /\ soundHistory' = [ soundHistory EXCEPT !.requests = @ + 1, !.pending = @ + 1 ]
    /\ UNCHANGED << viewer, applyRun >>

\* update: the sound is played when should_play_test_sound answers true
UpdateTestSound ==
    /\ soundHistory.polls < MaxPolls
    /\ LET r == should_play_test_sound(test_sound_flag)
       IN  /\ test_sound_flag' = r.flag
           /\ soundHistory' = [ soundHistory EXCEPT
                                  !.polls = @ + 1,
                                  !.plays = IF r.ret THEN @ + 1 ELSE @,
                                  !.pending = IF r.ret THEN 0 ELSE @,
                                  !.last = r.ret ]
    /\ UNCHANGED << viewer, applyRun >>

NextTestSound ==
    \/ RequestTestSound /\ UNCHANGED << avars, vvars, tvars, wvars >>
    \/ UpdateTestSound /\ UNCHANGED << avars, vvars, tvars, wvars >>

SpecTestSound == Init /\ [][NextTestSound]_vars

----------------------------------------------------------------------------
(* apply_settings (main.rs:723-870): the video retry loop, the audio retry  *)
(* loop with its start on the default devices, then volume and passthrough  *)

\* the settings a run may find: a device named or not for each of the three
\* roles, the default resolution, format and frame rate (settings.rs:52-62),
\* and the sample rates and channel counts of the dialog (ui.rs:384-404)
ApplyNames == { None, Some("A") }

ApplyRates == { Some(44100), Some(48000) }

ApplyChannels == { Some(1), Some(2) }

ApplySettings ==
    [ video_device_name : ApplyNames, resolution : { Some(<< 1280, 720 >>) },
      format : { Some("YUY2") }, fps : { Some(60) },
      input_device_name : ApplyNames, output_device_name : ApplyNames,
      sample_rate : ApplyRates, channels : ApplyChannels,
      volume : { 100 }, passthrough_enabled : { TRUE } ]

\* what the host answers to one audio start of a run
ApplyAudioEnvs ==
    { env \in AudioEnvs : env.cfg = << 20, 1 >> /\ env.inFmt = "F32" /\ env.outFmt = "F32" }

VideoMaxRetries(initial) == IF initial THEN 3 ELSE 1

\* a retry loop that makes five attempts in every run
AudioMaxRetries_AlwaysFive(initial) == 5

AudioMaxRetries(initial) == IF initial THEN 5 ELSE 2

\* a run that tries the default devices after every failed attempt
FallbackDue_EveryFailure(attempt, initial) == initial

\* `if attempt == 2 && initial`
FallbackDue(attempt, initial) == attempt = 2 /\ initial

\* one start made by the run, as the controller saw it
StartRecord(ctl, kind, inName, outName, ok) ==
    [ ctl |-> ctl, kind |-> kind, input |-> inName, output |-> outName, ok |-> ok ]

\* a run that connects the video device again whatever was applied last
NeedVideoRestart_Always(settings, v) == TRUE

\* need_video_restart (main.rs:727-731)
NeedVideoRestart(settings, v) ==
    \/ settings.video_device_name # v.last_video_device
    \/ settings.resolution # v.last_video_res
    \/ settings.format # v.last_video_format
    \/ settings.fps # v.last_video_fps

\* a comparison that also looks at the output device, of which no last value
\* is kept
NeedAudioRestart_ComparesOutput(settings, v, initial) ==
    \/ settings.input_device_name # v.last_audio_device
    \/ settings.output_device_name # v.last_audio_device
    \/ settings.sample_rate # v.last_audio_rate
    \/ settings.channels # v.last_audio_channels
    \/ initial

\* need_audio_restart (main.rs:775-779)
NeedAudioRestart(settings, v, initial) ==
    \/ settings.input_device_name # v.last_audio_device
    \/ settings.sample_rate # v.last_audio_rate
    \/ settings.channels # v.last_audio_channels
    \/ initial

\* where the run goes after the video block: the audio loop when
\* need_audio_restart, else the volume and passthrough settings
ApplyAfterVideo(run, v) ==
    IF NeedAudioRestart(run.settings, v, run.initial) THEN "audio" ELSE "volume"

\* apply_settings is entered: `refresh` is the caller clearing last_video_device
\* and last_audio_device first (main.rs:152-153, 611-612), which the initial
\* call always does
ApplySettingsBegin(initial, refresh, settings) ==
    LET v == IF refresh
             THEN [ viewer EXCEPT !.last_video_device = None, !.last_audio_device = None ]
             ELSE viewer
        need_video_restart == NeedVideoRestart(settings, v)
        run == [ ApplyIdle EXCEPT !.initial = initial, !.settings = settings,
                                  !.session_output = applyRun.session_output ]
    IN  /\ applyRun.pc \in { "idle", "done" }
        /\ initial => refresh
        /\ viewer' = v
        /\ applyRun' = [ run EXCEPT !.pc =
                            IF settings.video_device_name # None
                               /\ (need_video_restart \/ initial)
                            THEN "video" ELSE ApplyAfterVideo(run, v) ]
        /\ UNCHANGED << test_sound_flag, soundHistory >>

\* one turn of the video loop: video.start_capture with the settings
ApplyVideoAttempt(fault) ==
    LET name == applyRun.settings.video_device_name
        ok == VideoStartOutcome(name, fault) = "ok"
        logged == [ applyRun EXCEPT
                      !.starts = Append(@, StartRecord("video", "configured", name, None, ok)) ]
    IN  /\ applyRun.pc = "video"
        /\ VideoCapture_start_capture(name, fault)
        /\ IF ok
           THEN /\ viewer' = [ viewer EXCEPT
                                 !.last_video_device = name,
                                 !.last_video_res = applyRun.settings.resolution,
                                 !.last_video_format = applyRun.settings.format,
                                 !.last_video_fps = applyRun.settings.fps ]
                /\ applyRun' = [ logged EXCEPT !.video_success = TRUE, !.attempt = 0,
                                                !.pc = ApplyAfterVideo(applyRun, viewer) ]
           ELSE /\ viewer' = viewer
                /\ applyRun' =
                     IF applyRun.attempt + 1 < VideoMaxRetries(applyRun.initial)
                     THEN [ logged EXCEPT !.attempt = @ + 1 ]
                     ELSE [ logged EXCEPT !.attempt = 0,
                                          !.pc = ApplyAfterVideo(applyRun, viewer) ]
        /\ UNCHANGED << test_sound_flag, soundHistory >>

\* a run that records the settings as applied whether or not a start succeeded
ApplyAudioDone_RecordsFailure(v, run, success) ==
    /\ viewer' = [ v EXCEPT !.last_audio_device = run.settings.input_device_name,
                            !.last_audio_rate = run.settings.sample_rate,
                            !.last_audio_channels = run.settings.channels ]
    /\ applyRun' = [ run EXCEPT !.audio_success = success, !.pc = "volume" ]

\* the run leaves the audio loop: last_audio_* follow the settings when a
\* start succeeded
ApplyAudioDone(v, run, success) ==
    /\ viewer' = IF success
                 THEN [ v EXCEPT !.last_audio_device = run.settings.input_device_name,
                                 !.last_audio_rate = run.settings.sample_rate,
                                 !.last_audio_channels = run.settings.channels ]
                 ELSE v
    /\ applyRun' = [ run EXCEPT !.audio_success = success, !.pc = "volume" ]

\* one turn of the audio loop: start_passthrough_with_settings with the
\* settings' devices
ApplyAudioAttempt(env) ==
    LET inName == applyRun.settings.input_device_name
        outName == applyRun.settings.output_device_name
        ok == AudioStartOutcome(inName, outName, env.fault) = "ok"
        logged == [ applyRun EXCEPT
                      !.starts = Append(@, StartRecord("audio", "configured", inName, outName, ok)) ]
    IN  /\ applyRun.pc = "audio"
        /\ AudioCapture_start_passthrough_with_settings(inName, outName, env)
        /\ IF ok
           THEN ApplyAudioDone([ viewer EXCEPT !.audio_last_error = FALSE ],
                               [ logged EXCEPT !.session_output = outName ], TRUE)
           ELSE IF FallbackDue(applyRun.attempt, applyRun.initial)
           THEN /\ viewer' = [ viewer EXCEPT !.audio_last_error = TRUE ]
                /\ applyRun' = [ logged EXCEPT !.pc = "fallback" ]
           ELSE IF applyRun.attempt + 1 < AudioMaxRetries(applyRun.initial)
           THEN /\ viewer' = [ viewer EXCEPT !.audio_last_error = TRUE ]
                /\ applyRun' = [ logged EXCEPT !.attempt = @ + 1 ]
           ELSE ApplyAudioDone([ viewer EXCEPT !.audio_last_error = TRUE ], logged, FALSE)
        /\ UNCHANGED << test_sound_flag, soundHistory >>

\* start_passthrough_with_settings(None, None, None, None) after the failed
\* attempt
ApplyAudioFallback(env) ==
    LET ok == AudioStartOutcome(None, None, env.fault) = "ok"
        logged == [ applyRun EXCEPT
                      !.starts = Append(@, StartRecord("audio", "fallback", None, None, ok)) ]
    IN  /\ applyRun.pc = "fallback"
        /\ AudioCapture_start_passthrough_with_settings(None, None, env)
        /\ IF ok
           THEN ApplyAudioDone([ viewer EXCEPT !.audio_last_error = FALSE ],
                               [ logged EXCEPT !.session_output = None ], TRUE)
           ELSE IF applyRun.attempt + 1 < AudioMaxRetries(applyRun.initial)
           THEN /\ viewer' = viewer
                /\ applyRun' = [ logged EXCEPT !.attempt = @ + 1, !.pc = "audio" ]
           ELSE ApplyAudioDone(viewer, logged, FALSE)
        /\ UNCHANGED << test_sound_flag, soundHistory >>

\* audio.set_volume(self.volume)
ApplySetVolume ==
    /\ applyRun.pc = "volume"
    /\ AudioCapture_set_volume(applyRun.settings.volume)
    /\ applyRun' = [ applyRun EXCEPT !.pc = "passthrough" ]
    /\ UNCHANGED << test_sound_flag, soundHistory, viewer >>

\* audio.set_audio_passthrough_enabled(settings.audio.passthrough_enabled)
ApplySetPassthrough ==
    /\ applyRun.pc = "passthrough"
    /\ AudioCapture_set_audio_passthrough_enabled(applyRun.settings.passthrough_enabled)
    /\ applyRun' = [ applyRun EXCEPT !.pc = "done" ]
    /\ UNCHANGED << test_sound_flag, soundHistory, viewer >>

NextApply ==
    \/ \E initial \in BOOLEAN, refresh \in BOOLEAN, settings \in ApplySettings :
            ApplySettingsBegin(initial, refresh, settings) /\ UNCHANGED << avars, vvars, tvars, wvars >>
    \/ \E fault \in VideoFaults \cup { "none" } :
            ApplyVideoAttempt(fault) /\ UNCHANGED << avars, tvars, wvars >>
    \/ \E env \in ApplyAudioEnvs : ApplyAudioAttempt(env) /\ UNCHANGED << vvars, tvars, wvars >>
    \/ \E env \in ApplyAudioEnvs : ApplyAudioFallback(env) /\ UNCHANGED << vvars, tvars, wvars >>
    \/ ApplySetVolume /\ UNCHANGED << vvars, tvars, wvars >>
    \/ ApplySetPassthrough /\ UNCHANGED << vvars, tvars, wvars >>

\* the application applying its settings, at start and later
SpecApply == Init /\ [][NextApply]_vars

----------------------------------------------------------------------------
(* update (main.rs:144-191) applying unchanged settings again and again: the *)
(* delayed initial run, then a run every two seconds, while the configured   *)
(* devices are plugged in and pulled out                                     *)

\* the configured devices appear on the host
HostPlugsIn ==
    /\ ~available
    /\ available' = TRUE

\* the configured devices disappear from the host
HostUnplugs ==
    /\ available
    /\ available' = FALSE

\* a start on the configured devices succeeds exactly when they are there
HostFault(fault) == (fault = "none") <=> available

\* the delayed initial run (main.rs:146-155), entered once
UpdateInitialRun(settings) ==
    /\ applyRun.pc = "idle"
    /\ ApplySettingsBegin(TRUE, TRUE, settings)

\* the periodic run (main.rs:183-185) on the settings of the run before
UpdatePeriodicRun ==
    /\ applyRun.pc = "done"
    /\ ApplySettingsBegin(FALSE, FALSE, applyRun.settings)

\* the steps of the UI thread
NextUpdateRuns ==
    \/ \E settings \in ApplySettings :
            UpdateInitialRun(settings) /\ UNCHANGED << avars, vvars, tvars, wvars >>
    \/ UpdatePeriodicRun /\ UNCHANGED << avars, vvars, tvars, wvars >>
    \/ \E fault \in VideoFaults \cup { "none" } :
            HostFault(fault) /\ ApplyVideoAttempt(fault) /\ UNCHANGED << avars, tvars, wvars >>
    \/ \E env \in ApplyAudioEnvs :
            HostFault(env.fault) /\ ApplyAudioAttempt(env) /\ UNCHANGED << vvars, tvars, wvars >>
    \/ \E env \in ApplyAudioEnvs : ApplyAudioFallback(env) /\ UNCHANGED << vvars, tvars, wvars >>
    \/ ApplySetVolume /\ UNCHANGED << vvars, tvars, wvars >>
    \/ ApplySetPassthrough /\ UNCHANGED << vvars, tvars, wvars >>

NextApplyLive ==
    \/ NextUpdateRuns
    \/ HostPlugsIn /\ UNCHANGED << avars, vvars, tvars, uvars, startup, hotkey, dialog, locks >>
    \/ HostUnplugs /\ UNCHANGED << avars, vvars, tvars, uvars, startup, hotkey, dialog, locks >>

\* eframe keeps calling update (update_video_texture asks for a repaint every
\* 16 ms, main.rs:315), so the UI thread always takes its next step
SpecApplyLive == Init /\ [][NextApplyLive]_vars /\ WF_vars(NextUpdateRuns)

----------------------------------------------------------------------------
(* update (main.rs:144-191) on its clock: the delayed initial run and the   *)
(* periodic run; a run of apply_settings takes no time on this clock        *)

\* the time between two calls of update, in milliseconds
UpdateGaps == { 700, 1000 }

\* the settings update finds
StartupSettings ==
    { s \in ApplySettings : /\ s.output_device_name = None
                            /\ s.sample_rate = Some(48000) /\ s.channels = Some(2) }

\* an update that connects at once
StartupDue_Immediately(elapsed) == TRUE

\* `startup_time.elapsed().as_secs_f32() >= 2.0`
StartupDue(elapsed) == elapsed >= StartupDelayMs

\* `self.last_settings_applied.elapsed().as_secs_f32() > 2.0`
PeriodicDue(elapsed) == elapsed > ApplyPeriodMs

\* the periodic part of update at time `now`: apply_settings(false) is entered
\* when it is due
UpdatePeriodicPart(st, now, settings) ==
    IF PeriodicDue(now - st.last_settings_applied)
    THEN /\ ApplySettingsBegin(FALSE, FALSE, settings)
         /\ startup' = [ st EXCEPT !.phase = "periodic" ]
    ELSE /\ startup' = [ st EXCEPT !.phase = "idle" ]
         /\ UNCHANGED uvars

\* update is called `gap` milliseconds after the call before: the delayed
\* connection when it is due and not triggered yet, else the periodic part
UpdateBegin(gap, settings) ==
    LET now == startup.now + gap
        late == now >= StartupDelayMs
        st == [ startup EXCEPT !.now = now,
                               !.first_late = IF late /\ @ = None THEN Some(now) ELSE @ ]
    IN  /\ startup.phase = "idle"
        /\ now <= MaxClock
        /\ IF ~startup.delayed_connection_triggered /\ StartupDue(now)
           THEN /\ ApplySettingsBegin(TRUE, TRUE, settings)
                /\ startup' = [ st EXCEPT !.phase = "initial",
                                          !.initial_at = Append(@, now) ]
           ELSE UpdatePeriodicPart(st, now, settings)

\* apply_settings(true) has returned: delayed_connection_triggered = true, and
\* update goes on to its periodic part
UpdateAfterInitialRun ==
    /\ startup.phase = "initial"
    /\ applyRun.pc = "done"
    /\ UpdatePeriodicPart([ startup EXCEPT !.delayed_connection_triggered = TRUE ],
                          startup.now, applyRun.settings)

\* apply_settings(false) has returned: last_settings_applied = Instant::now()
UpdateAfterPeriodicRun ==
    /\ startup.phase = "periodic"
    /\ applyRun.pc = "done"
    /\ startup' = [ startup EXCEPT !.phase = "idle", !.last_settings_applied = startup.now ]
    /\ UNCHANGED uvars

NextStartup ==
    \/ \E gap \in UpdateGaps, settings \in StartupSettings :
            UpdateBegin(gap, settings)
              /\ UNCHANGED << avars, vvars, tvars, available, hotkey, dialog, locks >>
    \/ UpdateAfterInitialRun
          /\ UNCHANGED << avars, vvars, tvars, available, hotkey, dialog, locks >>
    \/ UpdateAfterPeriodicRun
          /\ UNCHANGED << avars, vvars, tvars, available, hotkey, dialog, locks >>
    \/ \E fault \in VideoFaults \cup { "none" } :
            ApplyVideoAttempt(fault) /\ UNCHANGED << avars, tvars, wvars >>
    \/ \E env \in ApplyAudioEnvs : ApplyAudioAttempt(env) /\ UNCHANGED << vvars, tvars, wvars >>
    \/ \E env \in ApplyAudioEnvs : ApplyAudioFallback(env) /\ UNCHANGED << vvars, tvars, wvars >>
    \/ ApplySetVolume /\ UNCHANGED << vvars, tvars, wvars >>
    \/ ApplySetPassthrough /\ UNCHANGED << vvars, tvars, wvars >>

SpecStartup == Init /\ [][NextStartup]_vars

----------------------------------------------------------------------------
(* The screenshot hotkey (screenshot.rs:94-126, 229-259): the listener      *)
(* thread sets the flag, handle_hotkeys polls it through is_hotkey_pressed  *)

\* the clock counts half milliseconds; Duration::as_millis drops the half
TicksPerMs == 2

as_millis(ticks) == ticks \div TicksPerMs

\* the time between two events of the hotkey, in half milliseconds: 10 ms,
\* 190 ms, 200.5 ms
HotkeyGaps == { 20, 380, 401 }

\* a poll without the debounce
is_hotkey_pressed_NoDebounce(pressed, last_trigger_time, now) ==
    IF pressed
    THEN [ pressed |-> FALSE, last_trigger_time |-> now, ret |-> TRUE ]
    ELSE [ pressed |-> pressed, last_trigger_time |-> last_trigger_time, ret |-> FALSE ]

\* is_hotkey_pressed (screenshot.rs:94-126): the flag and last_trigger_time
\* after the call, and the value returned
is_hotkey_pressed(pressed, last_trigger_time, now) ==
    IF pressed
    THEN IF as_millis(now - last_trigger_time) > DebounceMs
         THEN [ pressed |-> FALSE, last_trigger_time |-> now, ret |-> TRUE ]
         ELSE [ pressed |-> FALSE, last_trigger_time |-> last_trigger_time, ret |-> FALSE ]
    ELSE [ pressed |-> pressed, last_trigger_time |-> last_trigger_time, ret |-> FALSE ]

\* the listener thread receives a Pressed event of the registered hotkey:
\* `*pressed = true` (screenshot.rs:238-241)
HotkeyListenerPress(gap) ==
    /\ hotkey.presses < MaxPresses
    /\ hotkey' = [ hotkey EXCEPT !.now = @ + gap, !.pressed = TRUE, !.presses = @ + 1 ]

\* handle_hotkeys (main.rs:318-336) polls the flag
HandleHotkeys(gap) ==
    LET now == hotkey.now + gap
        r == is_hotkey_pressed(hotkey.pressed, hotkey.last_trigger_time, now)
    IN  /\ Len(hotkey.calls) < MaxHotkeyCalls
        /\ hotkey' = [ hotkey EXCEPT
                         !.now = now,
                         !.pressed = r.pressed,
                         !.last_trigger_time = r.last_trigger_time,
                         !.calls = Append(@, [ at |-> now, found |-> hotkey.pressed,
                                               ret |-> r.ret,
                                               presses |-> hotkey.presses ]) ]

NextHotkey ==
    \/ \E gap \in HotkeyGaps :
            HotkeyListenerPress(gap)
              /\ UNCHANGED << avars, vvars, tvars, uvars, available, startup, dialog, locks >>
    \/ \E gap \in HotkeyGaps :
            HandleHotkeys(gap)
              /\ UNCHANGED << avars, vvars, tvars, uvars, available, startup, dialog, locks >>

SpecHotkey == Init /\ [][NextHotkey]_vars

----------------------------------------------------------------------------
(* The settings dialog (ui.rs:21-127): one call of show_settings_dialog per *)
(* update while show_settings is set, with what the user did in that frame  *)

\* the settings the dialog edits: the sample rate and the channel count stand
\* for all of AppSettings
DialogSettings == [ sample_rate : ApplyRates, channels : ApplyChannels ]

\* the snapshot taken at the head of show_settings_dialog (ui.rs:33-41):
\* TEMP_SETTINGS is filled when it is empty
DialogSnapshot(temp, settings) == IF temp = None THEN Some(settings) ELSE temp

\* the context menu's settings entry (main.rs:617-620)
OpenSettings ==
    /\ ~dialog.show_settings
    /\ dialog' = [ dialog EXCEPT !.show_settings = TRUE,
                                 !.opened_with = Some(dialog.settings),
                                 !.last = "open", !.ret = FALSE ]

\* a frame in which the user picks a value in a tab: the tabs write to the
\* shared settings (ui.rs:53-72)
DialogEdit(settings) ==
    /\ dialog.show_settings
    /\ settings # dialog.settings
    /\ dialog' = [ dialog EXCEPT !.temp = DialogSnapshot(@, dialog.settings),
                                 !.settings = settings,
                                 !.last = "edit", !.ret = FALSE ]

\* OK (ui.rs:94-104)
DialogOk ==
    /\ dialog.show_settings
    /\ dialog' = [ dialog EXCEPT !.temp = None, !.show_settings = FALSE,
                                 !.last = "ok", !.ret = TRUE ]

\* Cancel (ui.rs:106-117)
DialogCancel ==
    /\ dialog.show_settings
    /\ dialog' = [ dialog EXCEPT !.settings = DialogSnapshot(dialog.temp, @)[1],
                                 !.temp = None, !.show_settings = FALSE,
                                 !.last = "cancel", !.ret = FALSE ]

\* Apply (ui.rs:119-123)
DialogApply ==
    /\ dialog.show_settings
    /\ dialog' = [ dialog EXCEPT !.temp = DialogSnapshot(@, dialog.settings),
                                 !.last = "apply", !.ret = TRUE ]

\* the close button of the window: egui clears show_settings (ui.rs:49)
DialogCloseWindow ==
    /\ dialog.show_settings
    /\ dialog' = [ dialog EXCEPT !.temp = DialogSnapshot(@, dialog.settings),
                                 !.show_settings = FALSE,
                                 !.last = "close", !.ret = FALSE ]

NextDialog ==
    \/ OpenSettings
          /\ UNCHANGED << avars, vvars, tvars, uvars, available, startup, hotkey, locks >>
    \/ \E settings \in DialogSettings :
            DialogEdit(settings)
              /\ UNCHANGED << avars, vvars, tvars, uvars, available, startup, hotkey, locks >>
    \/ DialogOk
          /\ UNCHANGED << avars, vvars, tvars, uvars, available, startup, hotkey, locks >>
    \/ DialogCancel
          /\ UNCHANGED << avars, vvars, tvars, uvars, available, startup, hotkey, locks >>
    \/ DialogApply
          /\ UNCHANGED << avars, vvars, tvars, uvars, available, startup, hotkey, locks >>
    \/ DialogCloseWindow
          /\ UNCHANGED << avars, vvars, tvars, uvars, available, startup, hotkey, locks >>

SpecDialog == Init /\ [][NextDialog]_vars

----------------------------------------------------------------------------
(* A passthrough session that stays: starts are made until one succeeds,    *)
(* then the callbacks run and nothing stops the session                      *)

\* the steps of the output callback (audio.rs:159-199)
NextOutputCallback ==
    \/ \E n \in 1..MaxOutBuf : OutputCallbackBegin(n) /\ UNCHANGED << vvars, tvars, uvars, wvars >>
    \/ OutputCallbackSlot /\ UNCHANGED << vvars, tvars, uvars, wvars >>
    \/ OutputCallbackReturn /\ UNCHANGED << vvars, tvars, uvars, wvars >>

NextPassthrough ==
    \/ \E env \in ApplyAudioEnvs :
            /\ ~is_active
            /\ AudioCapture_start_passthrough_with_settings(None, None, env)
            /\ UNCHANGED << vvars, tvars, uvars, wvars >>
    \/ \E n \in 1..MaxInBuf :
            InputCallbackBegin(HwBuffer(inFormat, Len(delivered), n)) /\ UNCHANGED << vvars, tvars, uvars, wvars >>
    \/ InputCallbackPush /\ UNCHANGED << vvars, tvars, uvars, wvars >>
    \/ NextOutputCallback

\* the output device keeps asking for buffers while its stream plays
SpecPassthroughLive == Init /\ [][NextPassthrough]_vars /\ WF_vars(NextOutputCallback)

----------------------------------------------------------------------------
(* The mutexes: what each thread locks, in the order of its code             *)

\* a dialog that keeps the guard of its snapshot until it returns
SettingsDialogTasks_SnapshotGuardHeld ==
    LET shown == << << "lock", "TEMP_SETTINGS" >>, << "lock", "settings" >>,
                    << "unlock", "settings" >>,
                    << "lock", "settings" >>, << "lock", "SELECTED_TAB" >>,
                    << "unlock", "SELECTED_TAB" >>, << "lock", "SELECTED_TAB" >>,
                    << "lock", "DEVICE_CAPABILITIES_CACHE" >>,
                    << "unlock", "DEVICE_CAPABILITIES_CACHE" >>,
                    << "unlock", "SELECTED_TAB" >>, << "unlock", "settings" >> >>
    IN  { shown \o << << "unlock", "TEMP_SETTINGS" >> >>,
          shown \o << << "lock", "settings" >>, << "unlock", "settings" >>,
                      << "lock", "TEMP_SETTINGS" >>, << "unlock", "TEMP_SETTINGS" >>,
                      << "unlock", "TEMP_SETTINGS" >> >>,
          shown \o << << "lock", "TEMP_SETTINGS" >>, << "lock", "settings" >>,
                      << "unlock", "settings" >>, << "unlock", "TEMP_SETTINGS" >>,
                      << "unlock", "TEMP_SETTINGS" >> >> }

\* show_settings_dialog (ui.rs:21-127): the snapshot, the window with its
\* tabs, then nothing, OK or Cancel
SettingsDialogTasks ==
    LET shown == << << "lock", "TEMP_SETTINGS" >>, << "lock", "settings" >>,
                    << "unlock", "settings" >>, << "unlock", "TEMP_SETTINGS" >>,
                    << "lock", "settings" >>, << "lock", "SELECTED_TAB" >>,
                    << "unlock", "SELECTED_TAB" >>, << "lock", "SELECTED_TAB" >>,
                    << "lock", "DEVICE_CAPABILITIES_CACHE" >>,
                    << "unlock", "DEVICE_CAPABILITIES_CACHE" >>,
                    << "unlock", "SELECTED_TAB" >>, << "unlock", "settings" >> >>
    IN  { shown,
          shown \o << << "lock", "settings" >>, << "unlock", "settings" >>,
                      << "lock", "TEMP_SETTINGS" >>, << "unlock", "TEMP_SETTINGS" >> >>,
          shown \o << << "lock", "TEMP_SETTINGS" >>, << "lock", "settings" >>,
                      << "unlock", "settings" >>, << "unlock", "TEMP_SETTINGS" >> >> }

\* the functions of the UI thread: apply_settings with both restarts
\* (main.rs:723-870; a stop waits for the callbacks of the streams it drops),
\* update_video_texture (main.rs:293-316), handle_hotkeys with take_screenshot
\* (main.rs:318-383), the volume sent to the backend (main.rs:194-199), the
\* device lists (main.rs:872-885), the dialog, the hotkey registered
\* (main.rs:262-272), the test sound (main.rs:274-281), and a setting saved
\* (main.rs:222-234, 286-288, 429-598)
UiTasks ==
    { << << "lock", "settings" >>, << "lock", "video_capture" >>,
         << "join", "video" >>, << "lock", "frames" >>, << "unlock", "frames" >>,
         << "unlock", "video_capture" >>, << "lock", "audio_capture" >>,
         << "join", "input" >>, << "join", "output" >>,
         << "lock", "volume" >>, << "unlock", "volume" >>,
         << "lock", "audio_passthrough_enabled" >>,
         << "unlock", "audio_passthrough_enabled" >>,
         << "unlock", "audio_capture" >>, << "lock", "screenshot_manager" >>,
         << "lock", "listener_shutdown" >>, << "unlock", "listener_shutdown" >>,
         << "unlock", "screenshot_manager" >>, << "unlock", "settings" >> >>,
      << << "lock", "video_capture" >>, << "lock", "frames" >>, << "unlock", "frames" >>,
         << "unlock", "video_capture" >> >>,
      << << "lock", "screenshot_manager" >>, << "lock", "is_hotkey_pressed" >>,
         << "lock", "last_trigger_time" >>, << "unlock", "last_trigger_time" >>,
         << "unlock", "is_hotkey_pressed" >>, << "unlock", "screenshot_manager" >>,
         << "lock", "video_capture" >>, << "lock", "frames" >>, << "unlock", "frames" >>,
         << "lock", "settings" >>, << "lock", "screenshot_manager" >>,
         << "unlock", "screenshot_manager" >>, << "unlock", "settings" >>,
         << "unlock", "video_capture" >> >>,
      << << "lock", "audio_capture" >>, << "lock", "volume" >>, << "unlock", "volume" >>,
         << "unlock", "audio_capture" >> >>,
      << << "lock", "audio_capture" >>, << "unlock", "audio_capture" >> >>,
      << << "lock", "screenshot_manager" >>, << "lock", "listener_shutdown" >>,
         << "unlock", "listener_shutdown" >>, << "unlock", "screenshot_manager" >> >>,
      << << "lock", "settings" >>, << "lock", "screenshot_manager" >>,
         << "unlock", "screenshot_manager" >>, << "unlock", "settings" >> >>,
      << << "lock", "settings" >>, << "unlock", "settings" >> >> }
    \cup SettingsDialogTasks

\* the callbacks and the listener: the input callback (audio.rs:123-157), the
\* output callback (audio.rs:159-199), the frame callback (video.rs:201-207)
\* and one turn of the listener's loop (screenshot.rs:220-259)
CallbackTasks(t) ==
    CASE t = "input" -> { << << "try_lock", "producer" >>, << "unlock", "producer" >> >> }
      [] t = "output" -> { << << "lock", "volume" >>, << "unlock", "volume" >>,
                              << "try_lock", "consumer" >>, << "unlock", "consumer" >> >> }
      [] t = "video" -> { << << "lock", "frames" >>, << "unlock", "frames" >> >> }
      [] t = "listener" -> { << << "lock", "listener_shutdown" >>,
                                << "unlock", "listener_shutdown" >> >>,
                             << << "lock", "listener_shutdown" >>,
                                << "unlock", "listener_shutdown" >>,
                                << "lock", "is_hotkey_pressed" >>,
                                << "unlock", "is_hotkey_pressed" >> >> }

\* a thread enters one of its functions
LockTaskBegin(t, task) ==
    /\ locks.pc[t] = << >>
    /\ locks' = [ locks EXCEPT !.pc[t] = task ]

\* a thread makes its next operation: Mutex::lock goes on when the mutex is
\* free and waits otherwise, whoever holds it; try_lock takes a free mutex and
\* else leaves the function; a join waits for the callback to return
LockStep(t) ==
    LET op == locks.pc[t][1][1]
        m == locks.pc[t][1][2]
    IN  /\ locks.pc[t] # << >>
        /\ CASE op = "lock" ->
                  /\ locks.holder[m] = "none"
                  /\ locks' = [ locks EXCEPT !.holder[m] = t, !.pc[t] = Tail(@) ]
             [] op = "try_lock" ->
                  IF locks.holder[m] = "none"
                  THEN locks' = [ locks EXCEPT !.holder[m] = t, !.pc[t] = Tail(@) ]
                  ELSE locks' = [ locks EXCEPT !.pc[t] = << >> ]
             [] op = "unlock" ->
                  locks' = [ locks EXCEPT !.holder[m] = "none", !.pc[t] = Tail(@) ]
             [] op = "join" ->
                  /\ locks.pc[m] = << >>
                  /\ locks' = [ locks EXCEPT !.pc[t] = Tail(@) ]

NextLocks ==
    \/ \E task \in UiTasks :
            LockTaskBegin("ui", task)
              /\ UNCHANGED << avars, vvars, tvars, uvars, available, startup, hotkey, dialog >>
    \/ \E t \in LockThreads \ { "ui" } : \E task \in CallbackTasks(t) :
            LockTaskBegin(t, task)
              /\ UNCHANGED << avars, vvars, tvars, uvars, available, startup, hotkey, dialog >>
    \/ \E t \in LockThreads :
            LockStep(t)
              /\ UNCHANGED << avars, vvars, tvars, uvars, available, startup, hotkey, dialog >>

SpecLocks == Init /\ [][NextLocks]_vars

----------------------------------------------------------------------------
(* Claims *)

\* the input callback handles one sample of its buffer in this step
InputSampleStep == inPc = "locked" /\ inData # << >> /\ inData' = Tail(inData)

\* C1: the ring never holds more samples than its capacity, and a push by the
\* input callback on a full ring is dropped: the ring is left as it was.
C1_RingWithinCapacity ==
    /\ [](Len(ring.buf) <= ring.cap)
    /\ [][ (InputSampleStep /\ Len(ring.buf) = ring.cap) => ring' = ring ]_vars

\* an overrun has happened and the ring is full
C1_Witness == overruns > 0 /\ Len(ring.buf) = ring.cap /\ ring.cap > 0

\* the delivered samples as the input callback pushes them
DeliveredAsF32 ==
    [ i \in 1..Len(delivered) |-> InputConvert(inFormat, delivered[i]) ]

\* C2: in a session the popped samples are, in order, the accepted samples
\* that have left the ring; the accepted samples are a subsequence of the
\* delivered ones, and a delivered sample is missing only if its push was
\* refused by a full ring (or it still waits in the hardware buffer).
C2_PoppedIsSubsequenceOfDelivered ==
    /\ IsSubseq(popped, DeliveredAsF32)
    /\ popped \o ring.buf = accepted
    /\ IsSubseq(accepted, DeliveredAsF32)
    /\ Len(delivered) = Len(accepted) + overruns + Len(inData)

\* two samples came out after a third was dropped on overrun
C2_Witness == Len(popped) >= 2 /\ overruns >= 1

\* C3: after C pushes into a ring of capacity C, C pops give the pushed
\* samples in order; a push number C+1 made before any pop is refused and the
\* C pops that follow still give the first C samples.
C3_FillThenDrain ==
    ringTest.pc = "done" =>
        /\ ringTest.oks = [ i \in 1..ringTest.planned |-> i <= ringTest.cap ]
        /\ ringTest.out = [ i \in 1..ringTest.cap |-> Some(ringTest.input[i]) ]
        /\ ringTest.rb.buf = << >>

\* a ring of capacity 2 or more, overfilled by one and then emptied
C3_Witness ==
    /\ ringTest.pc = "done"
    /\ ringTest.cap >= 2
    /\ ringTest.planned = ringTest.cap + 1
    /\ ringTest.input[1] # ringTest.input[2]

\* the samples an output callback has taken so far, in order
RECURSIVE Flatten(_)
Flatten(opts) == IF opts = << >> THEN << >> ELSE Head(opts) \o Flatten(Tail(opts))

\* sample * volume as the device format holds it
ExpectedSlot(fmt, sample, vol) ==
    IF fmt = "F32" THEN sample * vol
    ELSE LET q == IF sample * vol >= 0 THEN (sample * vol) \div VolUnit
                  ELSE -((-(sample * vol)) \div VolUnit)
         IN  IF q > I16Max THEN I16Max ELSE IF q < I16Min THEN I16Min ELSE q

OutputCallbackDone == outPc = "locked" /\ outLeft = 0

\* C4 as stated: when the output callback has filled its n slots, the first
\* min(k,n) hold the k samples the ring held at its start times the volume, the
\* others hold zero, and exactly min(k,n) samples have left the ring.
C4_Original ==
    OutputCallbackDone =>
        LET n == Len(outBuf)
            k == Len(outRing0)
            m == Min(k, n)
        IN  /\ \A i \in 1..n :
                 outBuf[i] = IF i <= m
                             THEN ExpectedSlot(outFormat, outRing0[i], outVol)
                             ELSE Silence
            /\ Len(Flatten(outTaken)) = m

\* C4, amended: every slot holds the sample popped for it times the volume read
\* at the start of the callback (in the device's format), or zero when that pop
\* found the ring empty; the samples popped are those that left the ring; and
\* when no push happens while the callback runs, the slots filled are the first
\* min(k,n), from the min(k,n) oldest samples, which are exactly those removed.
C4_OutputCallbackFillsSlots ==
    outPc = "locked" =>
        LET w == Len(outBuf)
            k == Len(outRing0)
            m == Min(k, w)
            taken == Flatten(outTaken)
        IN  /\ Len(outTaken) = w
            /\ \A i \in 1..w :
                 outBuf[i] = IF outTaken[i] = None THEN Silence
                             ELSE ExpectedSlot(outFormat, outTaken[i][1], outVol)
            /\ Len(taken) <= Len(popped)
            /\ SubSeq(popped, Len(popped) - Len(taken) + 1, Len(popped)) = taken
            /\ ~outPushed =>
                 /\ \A i \in 1..w :
                      outTaken[i] = IF i <= m THEN Some(outRing0[i]) ELSE None
                 /\ ring.buf = SubSeq(outRing0, m + 1, k)

\* a finished callback of two slots over a ring of one sample, undisturbed,
\* with a volume other than 1.0
C4_Witness ==
    /\ OutputCallbackDone
    /\ ~outPushed
    /\ Len(outRing0) = 1
    /\ Len(outBuf) = 2
    /\ outVol = 2 * VolUnit

\* an audio callback has just found its ring lock taken
InputLockRefused ==
    inPc = "idle" /\ inPc' = "idle" /\ Len(delivered') > Len(delivered)
OutputLockRefused == outPc = "idle" /\ outPc' = "silent"

\* C9: an audio callback that does not get its ring lock leaves the ring as it
\* is: the input callback pushes nothing, the output callback pops nothing and
\* fills its buffer with zeros.  (No state of the program has the lock taken when
\* a callback asks for it, see InputCallbackBegin and OutputCallbackBegin: the
\* formula holds with no step to which it applies.)
C9_RefusedLockLeavesRing ==
    [][ /\ InputLockRefused => (ring' = ring /\ accepted' = accepted)
        /\ OutputLockRefused =>
              /\ ring' = ring
              /\ popped' = popped
              /\ \A i \in 1..Len(outBuf') : outBuf'[i] = Silence ]_vars

\* every frame a frame callback can build from what the camera delivers
DecodableFrames ==
    { [ width |-> raw.width, height |-> raw.height, data |-> DecodeFrame(raw).rgb[1] ] :
        raw \in { r \in RawFrames : DecodeFrame(r).rgb # None } }

\* the UI thread returns from get_latest_frame in this step
PollStep == uiPc = "get" /\ uiPc' = "idle"

\* C5: a frame handed to the consumer is, in width, height and every byte, a
\* frame that was passed to push_back, and so is every frame in a slot; once a
\* poll has returned and nothing was pushed since, the swap and the clearing of
\* the dirty flag have both happened: front is the frame returned, dirty is off.
C5_ConsumerSeesWholeFrames ==
    /\ returned # None => returned[1] \in pushed
    /\ frames.front # None => frames.front[1] \in pushed
    /\ frames.back # None => frames.back[1] \in pushed
    /\ frames.dirty => frames.back # None
    /\ (polledOver >= 0 /\ pushesSincePoll = 0 /\ uiPc = "idle") =>
            (~frames.dirty /\ frames.front = returned)
    /\ (fbLock = "ui") = (uiPc = "get")
    /\ \A t \in CbThreads : (fbLock = t) = (cbPc[t] = "locked")

\* the consumer holds a frame while two different frames have been pushed
C5_Witness == returned # None /\ Cardinality(pushed) >= 2 /\ frames.dirty

\* C6: a poll made after a push_back of the session returns the frame of the
\* latest push_back, however many push_backs came since the poll before.
C6_PollReturnsLatestFrame ==
    (polledOver >= 0 /\ pushesSincePoll = 0 /\ lastPushed # None) =>
        returned = lastPushed

\* a poll that found two push_backs and returned the later frame
C6_Witness ==
    /\ polledOver = 2
    /\ pushesSincePoll = 0
    /\ returned # None
    /\ returned = lastPushed
    /\ Cardinality(pushed) >= 2

\* C7: two take_front calls in a row, and two get_latest_frame calls in a row,
\* return the same frame and the second swaps nothing; a take_front after a
\* push_back returns the frame pushed.
C7_TakeFrontIsIdempotent ==
    /\ [](LET t1 == take_front(frames)
              t2 == take_front(t1.fb)
              g1 == get_latest_frame(frames)
              g2 == get_latest_frame(g1.fb)
          IN  /\ t2.frame = t1.frame /\ t2.fb = t1.fb
              /\ g2.frame = g1.frame /\ g2.fb = g1.fb
              /\ \A f \in DecodableFrames, dt \in FrameIntervals, ms \in DecodeTimes :
                    take_front(push_back(frames, f, ms, TRUE, dt)).frame = Some(f))
    /\ [][ PollStep =>
             /\ (polledOver >= 0 /\ pushesSincePoll = 0) =>
                    (returned' = returned /\ frames' = frames)
             /\ pushesSincePoll >= 1 => returned' = lastPushed ]_vars

\* a second poll in a row that returned a frame
C7_Witness == polledOver = 0 /\ pushesSincePoll = 0 /\ returned # None

\* C8: no callback ever waits for a lock: a frame callback that has decoded its
\* frame finds the frames mutex free.
C8_CallbacksNeverWait ==
    \A t \in CbThreads : cbPc[t] = "decoded" => fbLock = "free"

\* C10: after a start that returned an error the controller is inactive and
\* holds no stream and no camera, also when a session was active before.
C10_FailedStartLeavesInactive ==
    /\ audioResult \in { "Err", "ErrWhileActive" } =>
            (~is_active /\ ~input_stream /\ ~output_stream)
    /\ videoResult \in { "Err", "ErrWhileActive" } => (~video_is_active /\ ~camera)

\* both controllers failed to restart while a session was active
C10_Witness == audioResult = "ErrWhileActive" /\ videoResult = "ErrWhileActive"

ErrResults == { "Err", "ErrWhileActive" }

\* C11: a start that names a device the host does not list returns an error
\* and opens nothing: no stream (audio), no camera (video), the controller
\* inactive; no other device is opened in its place.
C11_AbsentNamedDeviceFails ==
    /\ audioNamedAbsent =>
            /\ audioResult \in ErrResults
            /\ ~input_stream /\ ~output_stream /\ ~is_active
    /\ videoNamedAbsent =>
            /\ videoResult \in ErrResults
            /\ ~camera /\ ~video_is_active

\* both controllers were running and were restarted with an absent name
C11_Witness ==
    /\ audioNamedAbsent /\ audioResult = "ErrWhileActive"
    /\ videoNamedAbsent /\ videoResult = "ErrWhileActive"
    /\ raw_audio_consumer

\* the state AudioCapture::stop_capture leaves the controller in
AudioStopped ==
    ~input_stream /\ ~output_stream /\ ~is_active /\ buffer_capacity = 0

\* C12: every AudioCapture::stop_capture ends with both streams released,
\* is_active false and buffer_capacity 0 (the result of pause is discarded, so
\* nothing depends on it), and a stop_capture of a stopped controller changes
\* nothing: stop followed by stop is a single stop.
C12_AudioStopResetsAndIsIdempotent ==
    /\ [][ AudioCapture_stop_capture => AudioStopped' ]_vars
    /\ [][ (AudioCapture_stop_capture /\ AudioStopped) => UNCHANGED avars ]_vars

\* a session that buffered samples has been stopped
C12_Witness == AudioStopped /\ audioResult = "Ok" /\ ring.buf # << >>

\* the state VideoCapture::stop_capture leaves the controller in
VideoStopped == ~camera /\ ~video_is_active /\ frames = FrameBufferNew

\* C13: VideoCapture::stop_capture releases the camera, clears is_active and
\* replaces the frame buffer by an empty one, on which get_latest_frame returns
\* nothing; as long as no push_back followed the stop, the buffer stays empty and
\* a poll returns nothing; a stop_capture of a stopped controller changes nothing.
C13_VideoStopEmptiesFrameBuffer ==
    /\ [][ VideoCapture_stop_capture =>
              (VideoStopped /\ get_latest_frame(frames).frame = None)' ]_vars
    /\ [][ (VideoCapture_stop_capture /\ VideoStopped) =>
              UNCHANGED << camera, video_is_active, frames >> ]_vars
    /\ [](pushed = { } =>
              /\ frames.front = None /\ frames.back = None /\ ~frames.dirty
              /\ get_latest_frame(frames).frame = None
              /\ returned = None)

\* a running camera was stopped while a callback held a decoded frame, and a
\* poll made since the stop returned nothing
C13_Witness ==
    /\ VideoStopped
    /\ videoResult = "Ok"
    /\ polledOver = 0
    /\ returned = None
    /\ cbPc["stale"] = "decoded"

\* C14: get_latest_frame never returns a frame stored by a callback of a camera
\* that had been stopped when the frame was stored.
C14_StoppedSessionFramesInvisible == "returned" \notin fromStale

\* C15: once the streams are released the controller holds no handle to the
\* ring of the stopped session and the samples it buffered are gone.
C15_StopDestroysRing ==
    (~input_stream /\ ~output_stream) =>
        /\ ~raw_audio_consumer
        /\ ~processed_audio_consumer
        /\ ring.buf = << >>

\* the controller and its session, without the volume and without the flag
AudioSessionVars ==
    << input_stream, output_stream, is_active, buffer_capacity, raw_audio_consumer,
       processed_audio_consumer, ring, inFormat, outFormat, producerLock,
       consumerLock, inPc, inData, outPc, outVol, outLeft, outBuf, audioResult >>

\* C16: the volume and the passthrough flag change only in a step that changes
\* nothing else of the controller (streams, is_active, ring) and not the other
\* of the two; such a step is neither a start_passthrough_with_settings,
\* successful or failing, nor a stop_capture.
C16_VolumeAndFlagOutliveSessions ==
    /\ [][ volume' # volume =>
              UNCHANGED << AudioSessionVars, audio_passthrough_enabled >> ]_vars
    /\ [][ audio_passthrough_enabled' # audio_passthrough_enabled =>
              UNCHANGED << AudioSessionVars, volume >> ]_vars
    /\ [][ (volume' # volume \/ audio_passthrough_enabled' # audio_passthrough_enabled) =>
              /\ ~AudioCapture_stop_capture
              /\ \A inName \in OptionNames, outName \in OptionNames, env \in AudioEnvs :
                    ~AudioCapture_start_passthrough_with_settings(inName, outName, env) ]_vars

\* a volume of 2.0 and a cleared flag, after a restart of a running session
\* that failed
C16_Witness ==
    /\ volume = 2 * VolUnit
    /\ ~audio_passthrough_enabled
    /\ audioResult = "ErrWhileActive"
    /\ ring.buf # << >>

\* p / 100 clamped to [0.0, 2.0], in units of 1 / VolUnit
ExpectedVolume(p) ==
    IF p < 0 THEN 0
    ELSE IF p > 200 THEN 2 * VolUnit
    ELSE (p * VolUnit) \div 100

\* C17: set_volume(p) stores p / 100 for p from 0 to 200, 0.0 for a negative p
\* and 2.0 for p above 200: -50 gives 0.0, 300 gives 2.0, 100 gives exactly 1.0;
\* the stored volume is always within [0.0, 2.0].
C17_SetVolumeClamps ==
    /\ 0 <= volume /\ volume <= 2 * VolUnit
    /\ volumeTest.pc = "set" =>
          /\ volume = ExpectedVolume(volumeTest.percent)
          /\ volumeTest.percent = -50 => volume = 0
          /\ volumeTest.percent = 300 => volume = 2 * VolUnit
          /\ volumeTest.percent = 100 => volume = VolUnit

\* set_volume(150) has stored 1.5
C17_Witness ==
    volumeTest.pc = "set" /\ volumeTest.percent = 150 /\ 2 * volume = 3 * VolUnit

\* C18: while the passthrough flag is off, every slot an output callback writes
\* is silence, whatever the ring holds.
C18_DisabledFlagForcesSilence ==
    [][ (/\ outPc = "locked"
         /\ Len(outBuf') = Len(outBuf) + 1
         /\ ~audio_passthrough_enabled) =>
            outBuf'[Len(outBuf')] = Silence ]_vars

\* C19: the ring created by a start on an input device of sample rate r and c
\* channels is empty and has capacity 2 * floor(r * c * 50 / 1000): 9600 samples
\* for 48000 Hz and 2 channels.
C19_RingCapacityFormula ==
    capacityTest.pc = "started" =>
        LET r == capacityTest.cfg[1]
            c == capacityTest.cfg[2]
        IN  /\ is_active
            /\ ring.buf = << >>
            /\ ring.cap = 2 * ((r * c * 50) \div 1000)
            /\ (r = 48000 /\ c = 2) => ring.cap = 9600

\* started at 48000 Hz, 2 channels
C19_Witness ==
    /\ capacityTest.pc = "started"
    /\ capacityTest.cfg = << 48000, 2 >>
    /\ ring.cap = 9600
    /\ is_active

\* C20: the frame buffer holds at most two frames (front and back);
\* clear_old_frames empties the back slot when back is present and dirty is off
\* and changes nothing otherwise, so a pushed frame that was not swapped to
\* front yet stays in the back slot; after get_latest_frame the back slot is
\* empty.
C20_ClearOldFramesKeepsUnswapped ==
    /\ [](LET c == clear_old_frames(frames)
          IN  /\ Len(frames.front) + Len(frames.back) <= 2
              /\ (frames.back # None /\ ~frames.dirty) =>
                    c = [ frames EXCEPT !.back = None ]
              /\ ~(frames.back # None /\ ~frames.dirty) => c = frames
              /\ frames.dirty => (c.back = frames.back /\ frames.back = lastPushed))
    /\ [][ PollStep => (frames'.back = None /\ ~frames'.dirty) ]_vars

\* two different frames are resident, the one in back not yet swapped
C20_Witness ==
    /\ frames.dirty
    /\ frames.front # None
    /\ frames.back # None
    /\ frames.front # frames.back

\* C21: after any number of push_back calls on a FrameBuffer the interval
\* history has at most 120 entries; the first call of a session records no
\* interval and each later one appends its interval; once the history holds
\* 120 entries the oldest is evicted before the append, so that the history
\* is the intervals of the last min(calls - 1, 120) calls, oldest first
C21_IntervalHistoryBounded ==
    LET n == pushTest.calls
        h == pushTest.fb.frame_intervals
        k == Min(Max(n - 1, 0), 120)
    IN  pushTest.pc = "push" =>
            /\ Len(h) <= 120
            /\ Len(h) = k
            /\ h = SubSeq(pushTest.dts, n - k + 1, n)
            /\ n = 1 => h = << >>

\* more calls than the history holds: intervals have been evicted
C21_Witness ==
    /\ pushTest.pc = "push"
    /\ pushTest.calls > 121
    /\ Len(pushTest.fb.frame_intervals) = 120
    /\ Head(pushTest.fb.frame_intervals) # pushTest.dts[2]

\* the frames the claim C22 is about: YUYV of even width with fewer than
\* width * height * 2 bytes, and frames left to the generic decoder which
\* fails on them
UndersizedFrames ==
    { r \in RawFrames : /\ r.format = "YUYV"
                        /\ r.width % 2 = 0
                        /\ Len(r.bytes) < r.width * r.height * 2 }

UndecodableFrames ==
    { r \in RawFrames : /\ ~(r.format = "YUYV" /\ r.width % 2 = 0)
                        /\ r.decoded = None }

\* C22: a frame callback that receives an undersized YUYV frame of even width,
\* or a frame whose generic decode fails, pushes nothing: front, back, dirty,
\* the counters and the interval history of the Frame Buffer are unchanged,
\* no push is left pending, and get_latest_frame returns afterwards what it
\* would have returned before
C22_FailedDecodeDropsFrame ==
    /\ [][ \A raw \in UndersizedFrames \cup UndecodableFrames, ms \in DecodeTimes :
              FrameCallbackDecode(raw, ms) =>
                  /\ frames' = frames
                  /\ cbPc' = cbPc
                  /\ cbFrame' = cbFrame
                  /\ pushed' = pushed
                  /\ cbDropped'
                  /\ get_latest_frame(frames').frame = get_latest_frame(frames).frame
          ]_vars
    /\ [](cbDropped => cbPc["cb"] = "idle" /\ cbFrame["cb"] = NoFrame)

\* a frame is waiting in the back slot and the callback has just dropped one
C22_Witness ==
    /\ cbDropped
    /\ frames.dirty
    /\ frames.back # None
    /\ frames.fast_count + frames.fallback_count = 1

\* YUYV frames of odd width
OddWidthFrames == { r \in RawFrames : r.format = "YUYV" /\ r.width % 2 = 1 }

\* C23: a YUYV frame of odd width violates the converter's precondition and is
\* dropped: the frame callback decodes it in no other way, has no frame to
\* push for it and leaves the Frame Buffer as it is
C23_OddWidthFrameDropped ==
    [][ \A raw \in OddWidthFrames, ms \in DecodeTimes :
          FrameCallbackDecode(raw, ms) =>
              /\ DecodeFrame(raw).rgb = None
              /\ cbPc' = cbPc
              /\ cbFrame' = cbFrame
              /\ frames' = frames
      ]_vars

\* the pixel the claim C24 gives for luma y and chroma u, v
ExpectedPixel(y, u, v) ==
    LET clamp(x) == IF x < 0 THEN 0 ELSE IF x > 255 THEN 255 ELSE x
    IN  << clamp((1192 * (y - 16) + 1634 * (v - 128)) \div 1024),
           clamp((1192 * (y - 16) - 401 * (u - 128) - 833 * (v - 128)) \div 1024),
           clamp((1192 * (y - 16) + 2066 * (u - 128)) \div 1024) >>

\* C24: for every even width, every height and every buffer of at least
\* width * height * 2 bytes, yuy2_to_rgb_naive returns width * height * 3
\* bytes, the i-th quadruple (y0, u, y1, v) of the buffer giving pixels
\* 2i - 1 and 2i by the fixed-point BT.601 formulas with a flooring shift and
\* a clamp to 0..255; the bytes after width * height * 2 change nothing
C24_Yuy2ConversionFormula ==
    LET w == yuyTest.width
        h == yuyTest.height
        src == yuyTest.src
        out == yuyTest.out
    IN  (yuyTest.pc = "done" /\ w % 2 = 0 /\ Len(src) >= w * h * 2) =>
            /\ Len(out) = w * h * 3
            /\ \A i \in 1..((w * h) \div 2) :
                  LET y0 == src[4 * i - 3]
                      u  == src[4 * i - 2]
                      y1 == src[4 * i - 1]
                      v  == src[4 * i]
                  IN  SubSeq(out, 6 * i - 5, 6 * i)
                          = ExpectedPixel(y0, u, v) \o ExpectedPixel(y1, u, v)
            /\ out = yuy2_to_rgb_naive(w, h, SubSeq(src, 1, w * h * 2))

\* an image of several quadruples, converted from a buffer with bytes to
\* spare, its second quadruple differing from the first
C24_Witness ==
    /\ yuyTest.pc = "done"
    /\ yuyTest.width = 4
    /\ yuyTest.height = 2
    /\ Len(yuyTest.src) > 16
    /\ SubSeq(yuyTest.out, 1, 6) # SubSeq(yuyTest.out, 7, 12)
    /\ \E k \in 1..24 : yuyTest.out[k] \notin { 0, 255 }

\* the buffer holds only (y, 128, y, 128) quadruples, and at least one
UniformGraySource(src) ==
    /\ Len(src) >= 4
    /\ Len(src) % 4 = 0
    /\ \A k \in 1..Len(src) : src[k] = IF k % 2 = 1 THEN src[1] ELSE 128

Abs(x) == IF x < 0 THEN -x ELSE x

\* C25: converting a buffer made only of (y, 128, y, 128) quadruples, for any
\* luma y in 0..255, gives an image whose pixels are all equal and gray: r, g
\* and b differ pairwise by at most 2
C25_UniformLumaGivesGray ==
    LET out == yuyTest.out
        n == Len(out) \div 3
    IN  (yuyTest.pc = "done" /\ UniformGraySource(yuyTest.src)) =>
            /\ n = yuyTest.width * yuyTest.height
            /\ n >= 2
            /\ \A p \in 1..n : SubSeq(out, 3 * p - 2, 3 * p) = SubSeq(out, 1, 3)
            /\ Abs(out[1] - out[2]) <= 2
            /\ Abs(out[2] - out[3]) <= 2
            /\ Abs(out[1] - out[3]) <= 2

\* a mid gray: luma 128 converted, several pixels
C25_Witness ==
    /\ yuyTest.pc = "done"
    /\ UniformGraySource(yuyTest.src)
    /\ yuyTest.src[1] = 128
    /\ Len(yuyTest.out) = 24
    /\ yuyTest.out[1] \in 120..140

\* a VideoFrame whose data has width * height * 3 bytes
PackedRgb(f) == Len(f.data) = f.width * f.height * 3

\* C26: the frame callback turns a YUYV frame of even width w, height h and
\* w * h * 2 bytes into a VideoFrame of width w, height h and w * h * 3 bytes
\* of data (2,764,800 for 1280 x 720), get_latest_frame returns the frame of
\* the last callback, and every frame stored through the fast path, wherever
\* it is held, has width * height * 3 bytes of data
C26_FastPathFrameDimensions ==
    /\ [][ /\ \A raw \in FastFrames, ms \in DecodeTimes :
                FrameCallbackDecode(raw, ms) =>
                    /\ cbFrame'["cb"].fast
                    /\ cbFrame'["cb"].frame # None
                    /\ cbFrame'["cb"].frame[1].width = raw.width
                    /\ cbFrame'["cb"].frame[1].height = raw.height
                    /\ Len(cbFrame'["cb"].frame[1].data) = raw.width * raw.height * 3
           /\ (VideoCapture_get_latest_frame /\ pushesSincePoll >= 1) =>
                    returned' = lastPushed
         ]_vars
    /\ [](\A t \in CbThreads :
              (cbFrame[t].frame # None /\ cbFrame[t].fast) => PackedRgb(cbFrame[t].frame[1]))
    /\ [](frames.fallback_count = 0 =>
              \A slot \in { frames.front, frames.back, returned } :
                  slot # None => PackedRgb(slot[1]))
    /\ [](1280 * 720 * 3 = 2764800)

\* one callback has stored a 4 x 2 frame and get_latest_frame has returned it
C26_Witness ==
    /\ frames.fast_count = 1
    /\ frames.fallback_count = 0
    /\ polledOver = 1
    /\ returned # None
    /\ returned[1].width = 4
    /\ returned[1].height = 2
    /\ Len(returned[1].data) = 24

\* C27: every sample an i16 input device delivers, from -32768 to 32767, is
\* pushed into the ring as a value of the normalized range [-1.0, 1.0]
\* (-F32Unit..F32Unit in the model's unit)
C27_I16SamplesNormalized ==
    inFormat = "I16" =>
        /\ \A i \in 1..Len(accepted) : accepted[i] \in (0 - F32Unit)..F32Unit
        /\ \A i \in 1..Len(ring.buf) : ring.buf[i] \in (0 - F32Unit)..F32Unit

\* C28: the test sound flag is set and consumed once: a poll answers true
\* exactly when a request was stored since the previous poll that answered
\* true, and clears the flag in the same step; so the requests stored between
\* two polls yield one true however many they are, a poll that follows
\* without a new request answers false, and the polls answered true never
\* outnumber the requests, in any order of requests and polls
C28_TestSoundConsumedOnce ==
    /\ [][ UpdateTestSound =>
              /\ soundHistory'.last = (soundHistory.pending >= 1)
              /\ soundHistory'.plays =
                     soundHistory.plays + (IF soundHistory.pending >= 1 THEN 1 ELSE 0)
              /\ test_sound_flag' = FALSE
              /\ soundHistory'.pending = 0
         ]_vars
    /\ [](test_sound_flag = (soundHistory.pending >= 1))
    /\ [](soundHistory.plays + soundHistory.pending <= soundHistory.requests)

\* several requests consumed by one poll, and the next poll answered false
C28_Witness ==
    /\ soundHistory.requests >= 3
    /\ soundHistory.polls = 2
    /\ soundHistory.plays = 1
    /\ soundHistory.last = FALSE
    /\ soundHistory.pending = 0

\* the starts a run has made on one controller, in order
StartsOf(ctl) == SelectSeq(applyRun.starts, LAMBDA r : r.ctl = ctl)

ConfiguredAudioStarts ==
    SelectSeq(applyRun.starts, LAMBDA r : r.ctl = "audio" /\ r.kind = "configured")

\* a start that succeeded is the last one made on its controller
StopsAtFirstSuccess(starts) ==
    \A i \in 1..Len(starts) : starts[i].ok => i = Len(starts)

\* C29: one run of apply_settings makes at most 3 video starts when initial
\* and 1 otherwise, at most 5 audio starts on the configured devices when
\* initial and 2 otherwise, and on each controller it makes no start after
\* one that succeeded
C29_BoundedConnectionAttempts ==
    /\ Len(StartsOf("video")) <= IF applyRun.initial THEN 3 ELSE 1
    /\ Len(ConfiguredAudioStarts) <= IF applyRun.initial THEN 5 ELSE 2
    /\ StopsAtFirstSuccess(StartsOf("video"))
    /\ StopsAtFirstSuccess(StartsOf("audio"))

\* a finished initial run that used up its video attempts and connected the
\* audio at the fifth attempt on the configured devices
C29_Witness ==
    /\ applyRun.pc = "done"
    /\ applyRun.initial
    /\ Len(StartsOf("video")) = 3
    /\ ~applyRun.video_success
    /\ Len(ConfiguredAudioStarts) = 5
    /\ applyRun.audio_success
    /\ is_active

\* the audio starts made before the i-th start of the run
AudioStartsBefore(i) ==
    SelectSeq(SubSeq(applyRun.starts, 1, i - 1), LAMBDA r : r.ctl = "audio")

\* the i-th start of the run comes right after the third attempt on the
\* configured devices, which failed like the two before it
AfterThirdFailure(i) ==
    LET before == AudioStartsBefore(i)
    IN  /\ Len(before) = 3
        /\ \A k \in 1..3 : before[k].kind = "configured" /\ ~before[k].ok
        /\ applyRun.starts[i - 1] = before[3]

AudioParametersDiffer(settings, v) ==
    \/ settings.input_device_name # v.last_audio_device
    \/ settings.sample_rate # v.last_audio_rate
    \/ settings.channels # v.last_audio_channels

\* the step in which a run decides about the audio loop: it leaves the video
\* block, or passes it by, towards the audio loop or the volume setting
AudioDecisionStep ==
    /\ applyRun.pc \in { "idle", "done", "video" }
    /\ applyRun'.pc \in { "audio", "volume" }

\* C40: a non-initial run of apply_settings starts passthrough again exactly
\* when the input device name, the sample rate or the channel count of the
\* settings differs from last_audio_device, last_audio_rate and
\* last_audio_channels as the run finds them; starts are made in the audio
\* loop only, so a run whose settings differ in the output device name alone
\* makes none and the session that is running stays as it was opened
C40_RestartOnInputParametersOnly ==
    [][ /\ (AudioDecisionStep /\ ~applyRun'.initial)
            => /\ (applyRun'.pc = "audio")
                     <=> AudioParametersDiffer(applyRun'.settings, viewer')
               /\ applyRun'.pc = "volume"
                     => /\ SelectSeq(applyRun'.starts, LAMBDA r : r.ctl = "audio") = << >>
                        /\ UNCHANGED << is_active, input_stream, output_stream, ring >>
        /\ applyRun.pc = "audio" => applyRun'.starts # applyRun.starts
        /\ (applyRun.pc \in { "volume", "passthrough" })
            => UNCHANGED << is_active, input_stream, output_stream, ring >>
                 /\ applyRun'.starts = applyRun.starts ]_vars

\* a non-initial run has ended without a start of passthrough, on settings
\* that name another output device than the running session was opened with
C40_Witness ==
    /\ applyRun.pc = "done"
    /\ ~applyRun.initial
    /\ is_active
    /\ StartsOf("audio") = << >>
    /\ applyRun.settings.output_device_name # applyRun.session_output

\* the video parameters of the settings are the last applied ones
VideoParametersApplied(settings, v) ==
    /\ settings.video_device_name = v.last_video_device
    /\ settings.resolution = v.last_video_res
    /\ settings.format = v.last_video_format
    /\ settings.fps = v.last_video_fps

\* nothing of either session changes in the step
SessionsUntouched ==
    UNCHANGED << is_active, input_stream, output_stream, ring, audioResult,
                 camera, video_is_active, frames, videoResult >>

\* C32: a non-initial run of apply_settings that finds the video settings
\* (device, resolution, format, fps) and the audio settings (input device,
\* sample rate, channels) equal to the last applied ones goes straight to the
\* volume and passthrough settings; it calls start and stop on neither
\* controller, and the sessions stay as they were until the run has ended
C32_NoRestartOnUnchangedSettings ==
    [][ /\ ( /\ applyRun.pc \in { "idle", "done" }
             /\ applyRun'.pc # applyRun.pc \/ applyRun' # applyRun
             /\ ~applyRun'.initial
             /\ VideoParametersApplied(applyRun'.settings, viewer')
             /\ ~AudioParametersDiffer(applyRun'.settings, viewer') )
            => /\ applyRun'.pc = "volume"
               /\ applyRun'.starts = << >>
               /\ SessionsUntouched
        /\ (applyRun.pc \in { "volume", "passthrough" })
            => SessionsUntouched /\ applyRun'.starts = applyRun.starts ]_vars

\* a non-initial run on settings equal to the last applied ones has ended
\* with both sessions running and no start made
C32_Witness ==
    /\ applyRun.pc = "done"
    /\ ~applyRun.initial
    /\ applyRun.starts = << >>
    /\ is_active /\ video_is_active
    /\ applyRun.settings.video_device_name # None
    /\ VideoParametersApplied(applyRun.settings, viewer)
    /\ ~AudioParametersDiffer(applyRun.settings, viewer)

LastVideo(v) ==
    << v.last_video_device, v.last_video_res, v.last_video_format, v.last_video_fps >>

LastAudio(v) == << v.last_audio_device, v.last_audio_rate, v.last_audio_channels >>

\* the run that has ended tried to start the controller and never succeeded
RunFailedOn(ctl) ==
    /\ applyRun.pc = "done"
    /\ StartsOf(ctl) # << >>
    /\ \A i \in 1..Len(StartsOf(ctl)) : ~StartsOf(ctl)[i].ok

\* the settings in force name the video device, the audio input device
VideoConfigured == applyRun.pc # "idle" /\ applyRun.settings.video_device_name # None

AudioConfigured == applyRun.pc # "idle" /\ applyRun.settings.input_device_name # None

InitialRunBegins ==
    /\ applyRun.pc \in { "idle", "done" }
    /\ applyRun'.pc \notin { "idle", "done" }
    /\ applyRun'.initial

LastTrueBefore(i) ==
    LET earlier == { j \in 1..(i - 1) : hotkey.calls[j].ret }
    IN  IF earlier = { } THEN 0
        ELSE hotkey.calls[CHOOSE j \in earlier : \A k \in earlier : k <= j].at

\* C34: is_hotkey_pressed answers true only when it finds the flag set and
\* more than 200 ms after the last call that answered true, or after the
\* construction; a call that finds the flag set leaves it clear; between two
\* calls that answer true the listener has seen a press event, so the calls
\* that answered true are never more than the press events
C34_DebouncedHotkey ==
    /\ [](\A i \in 1..Len(hotkey.calls) :
             hotkey.calls[i].ret
               => /\ hotkey.calls[i].found
                  /\ hotkey.calls[i].at - LastTrueBefore(i) > 200 * 2)
    /\ [](\A i \in 1..Len(hotkey.calls) : \A j \in (i + 1)..Len(hotkey.calls) :
             hotkey.calls[i].ret /\ hotkey.calls[j].ret
               => hotkey.calls[j].presses > hotkey.calls[i].presses)
    /\ [](Cardinality({ i \in 1..Len(hotkey.calls) : hotkey.calls[i].ret })
             <= hotkey.presses)
    /\ [][ Len(hotkey'.calls) > Len(hotkey.calls) => ~hotkey'.pressed ]_vars

\* three press events, two of them answered true, one swallowed by the
\* debounce
C34_Witness ==
    /\ hotkey.presses = 3
    /\ Cardinality({ i \in 1..Len(hotkey.calls) : hotkey.calls[i].ret }) = 2
    /\ \E i \in 1..Len(hotkey.calls) : hotkey.calls[i].found /\ ~hotkey.calls[i].ret
    /\ ~hotkey.pressed

\* C35: after Cancel the shared settings are the ones they were when the
\* dialog was last opened, the dialog is closed, and show_settings_dialog has
\* returned false, which asks for no reconnection
C35_CancelRestoresOpenedSettings ==
    dialog.last = "cancel"
      => /\ dialog.settings = dialog.opened_with[1]
         /\ ~dialog.show_settings
         /\ ~dialog.ret

\* C36: after any starts and stops, failed ones included, AudioCapture's
\* is_active is true exactly when the input stream and the output stream are
\* both held, and VideoCapture's is_active exactly when a camera is held
C36_ActiveIffSessionHeld ==
    /\ is_active <=> (input_stream /\ output_stream)
    /\ video_is_active <=> camera

\* a start of passthrough has failed on a controller whose session was
\* running, while the camera is held
C36_Witness ==
    /\ audioResult = "ErrWhileActive"
    /\ ~is_active /\ ~input_stream /\ ~output_stream
    /\ video_is_active /\ camera

\* C38: the producer is locked by the input callback only and the consumer by
\* the output callback only, each from its try_lock to its return; a callback
\* that is entered finds its mutex free whatever the other callback is doing,
\* so no buffer is skipped and no output buffer is filled with silence for a
\* refused lock
C38_TryLockNeverFails ==
    /\ [](/\ producerLock = (IF inPc = "locked" THEN "input" ELSE "free")
          /\ consumerLock = (IF outPc = "locked" THEN "output" ELSE "free")
          /\ outPc # "silent")
    /\ [][ /\ (inPc = "idle" /\ Len(delivered') > Len(delivered))
               => inPc' = "locked" /\ producerLock' = "input"
           /\ (outPc = "idle" /\ outPc' # "idle")
               => outPc' = "locked" /\ consumerLock' = "output" ]_vars

\* both callbacks are inside their locked sections at once, samples left to
\* push and slots left to fill
C38_Witness ==
    /\ inPc = "locked" /\ producerLock = "input" /\ inData # << >>
    /\ outPc = "locked" /\ consumerLock = "output" /\ outLeft > 0

\* C39: in a session that stays active, with the output callback invoked
\* again and again, the samples popped are always the first of the samples
\* the ring accepted, in their order, and the k-th accepted sample is
\* eventually popped, for every k; a popped sample is written to the output
\* buffer in the step that pops it
C39_AcceptedSampleIsPlayed ==
    /\ [](Len(popped) <= Len(accepted) /\ popped = SubSeq(accepted, 1, Len(popped)))
    /\ \A k \in 1..MaxDelivered : (Len(accepted) >= k) ~> (Len(popped) >= k)
    /\ [][ Len(popped') > Len(popped)
             => /\ Len(outBuf') = Len(outBuf) + 1
                /\ outBuf'[Len(outBuf')] = SlotValue(outFormat, << popped'[Len(popped')] >>, outVol) ]_vars

\* every sample delivered was accepted and all of them have been popped
C39_Witness ==
    /\ is_active
    /\ Len(accepted) = MaxDelivered
    /\ popped = accepted
    /\ overruns = 0

\* the thread that thread t is waiting for: the holder of the mutex it is
\* about to lock, or the callback it joins
WaitsFor(t) ==
    IF locks.pc[t] = << >> THEN "none"
    ELSE LET op == locks.pc[t][1][1]
             m == locks.pc[t][1][2]
         IN  IF op = "lock" THEN locks.holder[m]
             ELSE IF op = "join" /\ locks.pc[m] # << >> THEN m
             ELSE "none"

RECURSIVE WaitChain(_, _)
WaitChain(t, n) ==
    IF n = 0 \/ t = "none" THEN t ELSE WaitChain(WaitsFor(t), n - 1)

\* the mutexes thread t holds
HeldBy(t) == { m \in LockMutexes : locks.holder[m] = t }

\* C37: no thread is about to lock a mutex it holds, the UI thread in
\* particular, and the chain of waits that starts at any thread ends at a
\* thread that can go on: no cycle of waits among the UI thread, the audio
\* callbacks, the frame callback and the hotkey listener
C37_NoDeadlock ==
    /\ \A t \in LockThreads : WaitsFor(t) # t
    /\ \A t \in LockThreads :
          \A n \in 1..Cardinality(LockThreads) : WaitChain(t, n) # t
    /\ \A t \in LockThreads : WaitChain(t, Cardinality(LockThreads)) = "none"
    /\ \A t \in LockThreads \ { "ui" } : Cardinality(HeldBy(t)) <= 1

\* the UI thread, inside apply_settings with settings and video_capture held,
\* waits for the frame buffer that the frame callback has locked
C37_Witness ==
    /\ { "settings", "video_capture" } \subseteq HeldBy("ui")
    /\ locks.pc["ui"][1] = << "lock", "frames" >>
    /\ WaitsFor("ui") = "video"

====
